---- MODULE Spec2Model ----
(***************************************************************************)
(* HR Nexus marketplace backend: the SQLite store (five tables with their  *)
(* constraints), the Express REST handlers over it, the matchmaking call   *)
(* to the AI text gateway, and the Socket.IO chat relay; and the           *)
(* single-page frontend that talks to them.                                *)
(*                                                                         *)
(* The specifications share the variables:                                 *)
(*   Spec       the CRUD endpoints over users/projects/bids/milestones;    *)
(*   MatchSpec  the matchmaking endpoint and the writes it depends on;     *)
(*   RelaySpec  the chat relay over connections and the messages table;    *)
(*   StoreSpec  every operation that writes the store;                     *)
(*   NavSpec, DialogSpec, ChatSpec, AiSpec  the page over the server.      *)
(* The API handlers never read or write the messages table or a socket,    *)
(* and the relay handlers touch nothing else, so the two evolve            *)
(* independently.                                                          *)
(***************************************************************************)
EXTENDS Integers, Sequences, FiniteSets, Bags, TLC

VARIABLES
    users,       \* table users: set of rows (rows are distinct by the UNIQUE email)
    projects,    \* table projects: rows in rowid (insertion) order
    bids,        \* table bids: rows in rowid order
    milestones,  \* table milestones: rows in rowid order
    messages,    \* table messages: rows in rowid order, id = AUTOINCREMENT
    now,         \* CURRENT_TIMESTAMP, in whole seconds since startup
    uuids,       \* number of crypto.randomUUID() values drawn so far
    writes,      \* number of write requests that changed the store so far
    resp,        \* the last HTTP exchange: request and response
    pending,     \* matchmaking requests suspended on the AI gateway
    aiCalls,     \* number of invocations of the AI gateway so far
    up,          \* the server process is running
    conn,        \* per socket: "closed" (never opened), "open", "gone"
    rooms,       \* per socket: the rooms it is in
    inbox,       \* per socket: receive_message events delivered to it, in order
    lastSend,    \* the last send_message event the relay handled
    view,              \* page: the view displayed
    currentUser,       \* page: id of the signed-in user, or NULL
    selectedProject,   \* page: id of the selected project, or NULL
    activeChatPartner, \* page: id of the chat partner, or NULL
    isPostingProject,  \* page: the post-project dialog is open
    isAiLoading,       \* page: the shared flag of the AI buttons
    listed,            \* page: the projects state, as fetched
    shownBids,         \* page: the bids state of ProjectDetail
    feed,              \* page: the messages state
    listeners,         \* page: receive_message listeners on its socket
    emitted,           \* page: events its socket emitted, not yet handled
    seen,              \* page: events of inbox["s1"] that reached it
    requests           \* page: the requests in flight (a bag)

vars == <<users, projects, bids, milestones, messages, now, uuids, writes, resp,
          pending, aiCalls, up, conn, rooms, inbox, lastSend,
          view, currentUser, selectedProject, activeChatPartner, isPostingProject,
          isAiLoading, listed, shownBids, feed, listeners, emitted, seen, requests>>

\* The state of the page, and the state of the server.
front == <<view, currentUser, selectedProject, activeChatPartner, isPostingProject,
           isAiLoading, listed, shownBids, feed, listeners, emitted, seen, requests>>

server == <<users, projects, bids, milestones, messages, now, uuids, writes, resp,
            pending, aiCalls, up, conn, rooms, inbox, lastSend>>

(***************************************************************************)
(* Bounds of the exploration.                                              *)
(***************************************************************************)
MaxWrites == 2        \* write requests that change the store
MaxTime == 1          \* seconds the clock advances
MaxAiCalls == 1       \* AI gateway invocations
MaxMessages == 2      \* send_message events handled
MaxPending == 1       \* requests in flight that forms and buttons started
MaxSignIns == 2       \* sign-ins completed on the page

(***************************************************************************)
(* JavaScript / JSON values.  A text field holds a string; NULL is JSON    *)
(* null and UNDEF a property missing from the body (undefined after the    *)
(* destructuring).  A numeric field is a tagged record.                    *)
(***************************************************************************)
NULL  == "<null>"
UNDEF == "<undefined>"

Num(n)  == [k |-> "num", n |-> n]
JsNull  == [k |-> "null", n |-> 0]
JsUndef == [k |-> "undefined", n |-> 0]
JsText  == [k |-> "text", n |-> 0]     \* a non-numeric string such as "abc"
JsNaN   == [k |-> "NaN", n |-> 0]

\* Math.floor(x * num/den) for the two factors the server uses, 0.2 = 1/5 and
\* 0.4 = 2/5.  For an integer x the double product rounds to the exact
\* quotient (the relative error of the constants 0.2 and 0.4 is 2^-54, below
\* half an ulp), so Math.floor yields the mathematical floor.  null coerces
\* to 0; undefined and a non-numeric string coerce to NaN.
\* Variant: Math.ceil in place of Math.floor.
CeilMul(x, num, den) ==
    CASE x.k = "num"  -> Num(0 - ((0 - x.n * num) \div den))
      [] x.k = "null" -> Num(0)
      [] OTHER        -> JsNaN

FloorMul(x, num, den) ==
    CASE x.k = "num"  -> Num((x.n * num) \div den)
      [] x.k = "null" -> Num(0)
      [] OTHER        -> JsNaN

\* better-sqlite3 binds numbers, strings and null; undefined is rejected with
\* a TypeError before the statement runs.  NaN is bound as a double, which
\* SQLite stores as NULL.
BindError == "SQLite3 can only bind numbers, strings, bigints, buffers, and null"
BindableText(v) == v # UNDEF
BindableNum(v)  == v.k # "undefined"
NullText(v) == v = NULL
NullNum(v)  == v.k \in {"null", "NaN"}
SqlNum(v)   == IF v.k = "NaN" THEN JsNull ELSE v

(***************************************************************************)
(* Schema and seed data (db.exec at startup).                              *)
(***************************************************************************)
Roles == {"buyer", "seller"}       \* CHECK(role IN ('buyer', 'seller'))

SeedUsers ==
    { [id |-> "buyer_1", name |-> "Acme Corp HR", email |-> "hr@acme.com",
       role |-> "buyer", bio |-> "Fast-growing tech startup looking for HR expertise.",
       avatar |-> "https://api.dicebear.com/7.x/avataaars/svg?seed=Acme"],
      [id |-> "seller_1", name |-> "Sarah Jenkins", email |-> "sarah@hrconsulting.com",
       role |-> "seller",
       bio |-> "Senior HR Consultant with 10 years experience in tech recruitment and organizational design.",
       avatar |-> "https://api.dicebear.com/7.x/avataaars/svg?seed=Sarah"] }

\* Both seed projects are inserted by one statement, hence at the same second.
SeedProjects ==
    << [id |-> "p1", buyer_id |-> "buyer_1",
        title |-> "Technical Recruitment for Engineering Team",
        description |-> "We are looking for a specialized recruiter to help us hire 5 senior software engineers and 2 product managers over the next 3 months.",
        budget_min |-> Num(5000), budget_max |-> Num(15000),
        status |-> "open", created_at |-> 0],
       [id |-> "p2", buyer_id |-> "buyer_1",
        title |-> "Organizational Culture Audit",
        description |-> "Need an HR expert to conduct a full culture audit and provide recommendations for improving employee engagement in a remote-first environment.",
        budget_min |-> Num(3000), budget_max |-> Num(8000),
        status |-> "open", created_at |-> 0] >>

\* Result of running one statement: the tables after it and the error it
\* threw ("" when it ran).  A failed statement leaves every table as it was.
Ok(u, p, b, m)  == [err |-> "", users |-> u, projects |-> p, bids |-> b, milestones |-> m]
Fail(e, u, p, b, m) == [err |-> e, users |-> u, projects |-> p, bids |-> b, milestones |-> m]

\* Foreign keys are enforced (better-sqlite3 enables them by default) and are
\* checked when the statement concludes: every child row must then have its
\* parent.
\* Variant: foreign keys not enforced (PRAGMA foreign_keys = OFF).
ForeignKeysOff(u, p, b, m) == TRUE

ForeignKeysHold(u, p, b, m) ==
    /\ \A i \in 1..Len(p) : \E x \in u : x.id = p[i].buyer_id
    /\ \A i \in 1..Len(b) :
          /\ \E j \in 1..Len(p) : p[j].id = b[i].project_id
          /\ \E x \in u : x.id = b[i].seller_id
    /\ \A i \in 1..Len(m) : \E j \in 1..Len(p) : p[j].id = m[i].project_id

\* TEXT PRIMARY KEY: unique among non-NULL values (SQLite admits NULL keys of
\* a non-INTEGER primary key, any number of them).
KeyTaken(rows, id) == id # NULL /\ \E i \in 1..Len(rows) : rows[i].id = id

\* crypto.randomUUID(): the n-th value drawn; values never repeat.
UuidPool == << "uuid-01", "uuid-02", "uuid-03", "uuid-04", "uuid-05", "uuid-06",
              "uuid-07", "uuid-08", "uuid-09", "uuid-10", "uuid-11", "uuid-12" >>
Uuid(n) == UuidPool[n]

(***************************************************************************)
(* The SQL statements the handlers run.                                    *)
(***************************************************************************)

\* INSERT OR REPLACE INTO users (line 127).  NOT NULL and CHECK violations
\* abort; a PRIMARY KEY or UNIQUE(email) conflict deletes every conflicting
\* row and the new row is inserted; the foreign keys of projects and bids are
\* checked when the statement concludes.
UserConflicts(r, u) ==
    { x \in u : (r.id # NULL /\ x.id = r.id) \/ x.email = r.email }

InsertOrReplaceUser(r, u, p, b, m) ==
    LET u1 == (u \ UserConflicts(r, u)) \cup {r}
    IN  IF \E f \in {r.id, r.name, r.email, r.role, r.bio, r.avatar} : ~BindableText(f)
          THEN Fail(BindError, u, p, b, m)
        ELSE IF NullText(r.name) THEN Fail("NOT NULL constraint failed: users.name", u, p, b, m)
        ELSE IF NullText(r.email) THEN Fail("NOT NULL constraint failed: users.email", u, p, b, m)
        ELSE IF NullText(r.role) THEN Fail("NOT NULL constraint failed: users.role", u, p, b, m)
        ELSE IF r.role \notin Roles
          THEN Fail("CHECK constraint failed: role IN ('buyer', 'seller')", u, p, b, m)
        ELSE IF ~ForeignKeysHold(u1, p, b, m)
          THEN Fail("FOREIGN KEY constraint failed", u, p, b, m)
        ELSE Ok(u1, p, b, m)

\* INSERT INTO projects (line 98); status and created_at take their defaults.
InsertProject(r, t, u, p, b, m) ==
    LET row == [id |-> r.id, buyer_id |-> r.buyer_id, title |-> r.title,
                description |-> r.description, budget_min |-> SqlNum(r.budget_min),
                budget_max |-> SqlNum(r.budget_max), status |-> "open", created_at |-> t]
        p1 == Append(p, row)
    IN  IF \/ \E f \in {r.id, r.buyer_id, r.title, r.description} : ~BindableText(f)
           \/ ~BindableNum(r.budget_min) \/ ~BindableNum(r.budget_max)
          THEN Fail(BindError, u, p, b, m)
        ELSE IF NullText(r.buyer_id) THEN Fail("NOT NULL constraint failed: projects.buyer_id", u, p, b, m)
        ELSE IF NullText(r.title) THEN Fail("NOT NULL constraint failed: projects.title", u, p, b, m)
        ELSE IF NullText(r.description)
          THEN Fail("NOT NULL constraint failed: projects.description", u, p, b, m)
        ELSE IF KeyTaken(p, r.id) THEN Fail("UNIQUE constraint failed: projects.id", u, p, b, m)
        ELSE IF ~ForeignKeysHold(u, p1, b, m) THEN Fail("FOREIGN KEY constraint failed", u, p, b, m)
        ELSE Ok(u, p1, b, m)

\* INSERT INTO milestones (lines 107 and 157); status takes its default.
InsertMilestone(r, u, p, b, m) ==
    LET row == [id |-> r.id, project_id |-> r.project_id, title |-> r.title,
                amount |-> SqlNum(r.amount), status |-> "pending"]
        m1 == Append(m, row)
    IN  IF \/ \E f \in {r.id, r.project_id, r.title} : ~BindableText(f)
           \/ ~BindableNum(r.amount)
          THEN Fail(BindError, u, p, b, m)
        ELSE IF NullText(r.project_id)
          THEN Fail("NOT NULL constraint failed: milestones.project_id", u, p, b, m)
        ELSE IF NullText(r.title) THEN Fail("NOT NULL constraint failed: milestones.title", u, p, b, m)
        ELSE IF NullNum(r.amount) THEN Fail("NOT NULL constraint failed: milestones.amount", u, p, b, m)
        ELSE IF KeyTaken(m, r.id) THEN Fail("UNIQUE constraint failed: milestones.id", u, p, b, m)
        ELSE IF ~ForeignKeysHold(u, p, b, m1) THEN Fail("FOREIGN KEY constraint failed", u, p, b, m)
        ELSE Ok(u, p, b, m1)

\* Variant of the bids insert: INSERT OR REPLACE, as the users statement has
\* it: a bid whose id is taken replaces the stored one.
InsertOrReplaceBid(r, t, u, p, b, m) ==
    LET row == [id |-> r.id, project_id |-> r.project_id, seller_id |-> r.seller_id,
                amount |-> SqlNum(r.amount), proposal |-> r.proposal,
                status |-> "pending", created_at |-> t]
        b1 == Append(SelectSeq(b, LAMBDA x : x.id = NULL \/ x.id # r.id), row)
    IN  IF \/ \E f \in {r.id, r.project_id, r.seller_id, r.proposal} : ~BindableText(f)
           \/ ~BindableNum(r.amount)
          THEN Fail(BindError, u, p, b, m)
        ELSE IF NullText(r.project_id) THEN Fail("NOT NULL constraint failed: bids.project_id", u, p, b, m)
        ELSE IF NullText(r.seller_id) THEN Fail("NOT NULL constraint failed: bids.seller_id", u, p, b, m)
        ELSE IF NullNum(r.amount) THEN Fail("NOT NULL constraint failed: bids.amount", u, p, b, m)
        ELSE IF NullText(r.proposal) THEN Fail("NOT NULL constraint failed: bids.proposal", u, p, b, m)
        ELSE IF ~ForeignKeysHold(u, p, b1, m) THEN Fail("FOREIGN KEY constraint failed", u, p, b, m)
        ELSE Ok(u, p, b1, m)

\* INSERT INTO bids (line 142); status and created_at take their defaults.
InsertBid(r, t, u, p, b, m) ==
    LET row == [id |-> r.id, project_id |-> r.project_id, seller_id |-> r.seller_id,
                amount |-> SqlNum(r.amount), proposal |-> r.proposal,
                status |-> "pending", created_at |-> t]
        b1 == Append(b, row)
    IN  IF \/ \E f \in {r.id, r.project_id, r.seller_id, r.proposal} : ~BindableText(f)
           \/ ~BindableNum(r.amount)
          THEN Fail(BindError, u, p, b, m)
        ELSE IF NullText(r.project_id) THEN Fail("NOT NULL constraint failed: bids.project_id", u, p, b, m)
        ELSE IF NullText(r.seller_id) THEN Fail("NOT NULL constraint failed: bids.seller_id", u, p, b, m)
        ELSE IF NullNum(r.amount) THEN Fail("NOT NULL constraint failed: bids.amount", u, p, b, m)
        ELSE IF NullText(r.proposal) THEN Fail("NOT NULL constraint failed: bids.proposal", u, p, b, m)
        ELSE IF KeyTaken(b, r.id) THEN Fail("UNIQUE constraint failed: bids.id", u, p, b, m)
        ELSE IF ~ForeignKeysHold(u, p, b1, m) THEN Fail("FOREIGN KEY constraint failed", u, p, b, m)
        ELSE Ok(u, p, b1, m)

(***************************************************************************)
(* Requests.  Every body carries `wellformed`: FALSE is a body that is not *)
(* valid JSON, which express.json() (line 87) rejects before any route     *)
(* runs.  The sets below are the request bodies and path ids explored.     *)
(***************************************************************************)
UserIdInputs == {"buyer_1", "seller_1", "u_new"}
EmailInputs  == {"hr@acme.com", "sarah@hrconsulting.com", "new@x.com"}

UserBody(id, name, email, role, avatar) ==
    [wellformed |-> TRUE, id |-> id, name |-> name, email |-> email, role |-> role,
     bio |-> NULL, avatar |-> avatar]

UserBodies ==
    { UserBody("buyer_1", "Renamed", email, "seller", NULL) : email \in EmailInputs }
    \cup
    { UserBody("seller_1", "Renamed", "sarah@hrconsulting.com", "seller", NULL),
      UserBody("u_new", "Renamed", "new@x.com", "seller", NULL),
      UserBody(NULL, "Renamed", "sarah@hrconsulting.com", "seller", NULL),
      UserBody(NULL, "Changed", "new@x.com", "seller", NULL),
      UserBody("buyer_1", NULL, "hr@acme.com", "buyer", NULL),
      UserBody("u_new", "Renamed", "new@x.com", "admin", NULL),
      [wellformed |-> FALSE, id |-> UNDEF, name |-> UNDEF, email |-> UNDEF,
       role |-> UNDEF, bio |-> UNDEF, avatar |-> UNDEF] }

BudgetInputs == {Num(0 - 7), Num(3), Num(4), Num(1000), JsNull, JsText}

ProjectBody(id, buyer, title, bmin) ==
    [wellformed |-> TRUE, id |-> id, buyer_id |-> buyer, title |-> title,
     description |-> "D", budget_min |-> bmin, budget_max |-> Num(2000)]

ProjectBodies ==
    { ProjectBody("p3", "buyer_1", "X", bmin) : bmin \in BudgetInputs }
    \cup
    { ProjectBody("p3", "u_new", "X", Num(1000)),
      ProjectBody("p1", "buyer_1", "X", Num(1000)),
      ProjectBody(NULL, "buyer_1", "X", Num(1000)),
      [wellformed |-> FALSE, id |-> UNDEF, buyer_id |-> UNDEF, title |-> UNDEF,
       description |-> UNDEF, budget_min |-> JsUndef, budget_max |-> JsUndef] }

BidBody(id, pid, seller, amount) ==
    [wellformed |-> TRUE, id |-> id, project_id |-> pid, seller_id |-> seller,
     amount |-> amount, proposal |-> "I can help"]

BidBodies ==
    { BidBody("b1", "p1", "seller_1", Num(900)),
      BidBody("b2", "p1", "seller_1", Num(900)),
      BidBody("b1", "p2", "seller_1", Num(900)),
      BidBody("b1", "p1", "u_new", Num(900)),
      BidBody("b1", "p1", "seller_1", JsNull),
      [wellformed |-> FALSE, id |-> UNDEF, project_id |-> UNDEF, seller_id |-> UNDEF,
       amount |-> JsUndef, proposal |-> UNDEF] }

MilestoneBody(id, pid, title, amount) ==
    [wellformed |-> TRUE, id |-> id, project_id |-> pid, title |-> title, amount |-> amount]

MilestoneBodies ==
    { MilestoneBody("m1", pid, "Extra", Num(50)) : pid \in {"p1", "p3", "p404"} }
    \cup
    { MilestoneBody("m1", "p1", "Extra", JsNull),
      [wellformed |-> FALSE, id |-> UNDEF, project_id |-> UNDEF, title |-> UNDEF,
       amount |-> JsUndef] }

ProjectPathIds == {"p1", "p3", "p404"}
BidPathIds     == {"p1", "p404"}
MilestonePathIds == {"p3", "p404"}
UserPathIds    == {"seller_1", "u404"}

\* The outcomes of one call to the AI gateway (generateContent): the text
\* returned, or the error it rejects with.
AiOutcomes == { [ok |-> TRUE, text |-> "ranked consultants"],
                [ok |-> FALSE, text |-> "quota exceeded"] }

\* socket.id of the connections explored.
Sockets == {"s1", "s2"}

\* The payload of a send_message / receive_message event.
MessageData(sender, receiver, content) ==
    [sender_id |-> sender, receiver_id |-> receiver, content |-> content]

NoResp == [op |-> "none", status |-> 0, error |-> "", req |-> <<>>, body |-> <<>>]

Response(op, status, error, req, body) ==
    [op |-> op, status |-> status, error |-> error, req |-> req, body |-> body]

\* express.json(): a body that does not parse is answered 400 by the default
\* error handler and no route handler runs.
ParseFailed(op, body) == Response(op, 400, "entity.parse.failed", body, <<>>)

(***************************************************************************)
(* Init: the state after the startup script ran on an empty database.      *)
(***************************************************************************)
Init ==
    /\ users = SeedUsers
    /\ projects = SeedProjects
    /\ bids = <<>>
    /\ milestones = <<>>
    /\ messages = <<>>
    /\ now = 0
    /\ uuids = 0
    /\ writes = 0
    /\ resp = NoResp
    /\ pending = {}
    /\ aiCalls = 0
    /\ up = TRUE
    /\ conn = [c \in Sockets |-> "closed"]
    /\ rooms = [c \in Sockets |-> {}]
    /\ inbox = [c \in Sockets |-> <<>>]
    /\ lastSend = [n |-> 0, socket |-> "", data |-> MessageData("", "", ""), error |-> ""]
    /\ view = "landing"
    /\ currentUser = NULL
    /\ selectedProject = NULL
    /\ activeChatPartner = NULL
    /\ isPostingProject = FALSE
    /\ isAiLoading = FALSE
    /\ listed = <<>>
    /\ shownBids = {}
    /\ feed = <<>>
    /\ listeners = 0
    /\ emitted = <<>>
    /\ seen = 0
    /\ requests = SetToBag({[kind |-> "fetchProjects", user |-> "", project |-> "",
                             id |-> ""]})

\* CURRENT_TIMESTAMP has a resolution of one second.  The clock is followed
\* as long as a write that reads it can still come.
Tick ==
    /\ now < MaxTime
    /\ writes < MaxWrites
    /\ now' = now + 1
    /\ UNCHANGED <<users, projects, bids, milestones, messages, uuids, writes, resp,
                   pending, aiCalls, up, conn, rooms, inbox, lastSend>>

(***************************************************************************)
(* POST /api/users (lines 124-132).                                        *)
(***************************************************************************)
PostUsers(body) ==
    LET r == InsertOrReplaceUser(
                 [id |-> body.id, name |-> body.name, email |-> body.email,
                  role |-> body.role, bio |-> body.bio, avatar |-> body.avatar],
                 users, projects, bids, milestones)
    IN  /\ up
        /\ writes < MaxWrites
        /\ IF ~body.wellformed
             THEN /\ resp' = ParseFailed("POST /api/users", body)
                  /\ UNCHANGED <<users, writes>>
             ELSE /\ users' = r.users
                  /\ writes' = IF r.users # users THEN writes + 1 ELSE writes
                  /\ resp' = IF r.err = ""
                               THEN Response("POST /api/users", 201, "", body, <<>>)
                               ELSE Response("POST /api/users", 500, r.err, body, <<>>)
        /\ UNCHANGED <<projects, bids, milestones, messages, now, uuids,
                       pending, aiCalls, up, conn, rooms, inbox, lastSend>>

(***************************************************************************)
(* POST /api/projects (lines 95-116): the project row, then the three      *)
(* milestones, one autocommitted statement each.  The first statement that *)
(* throws ends the handler in the catch block; rows inserted before it     *)
(* stay.                                                                   *)
(***************************************************************************)
\* The store itself can refuse a statement (SQLITE_FULL when the disk is
\* full, SQLITE_BUSY when another process holds the file): run() then throws
\* like for a constraint.  `fault` is the number of the milestone statement
\* at which that happens, 0 when it does not; the last statement is the one
\* explored.
StoreFaults == {0, 3}
DiskFull == "database or disk is full"

RECURSIVE InsertMilestones(_, _, _, _, _, _)
InsertMilestones(ms, fault, u, p, b, m) ==
    IF ms = <<>> THEN Ok(u, p, b, m)
    ELSE IF fault = 1 THEN Fail(DiskFull, u, p, b, m)
    ELSE LET r == InsertMilestone(Head(ms), u, p, b, m)
         IN  IF r.err # "" THEN r
             ELSE InsertMilestones(Tail(ms), fault - 1,
                                   r.users, r.projects, r.bids, r.milestones)

\* Variant: an even three-way split, the kickoff share taken at 0.4 as well.
EvenMilestones(body, n) ==
    << [id |-> Uuid(n + 1), project_id |-> body.id, title |-> "Project Kickoff & Strategy",
        amount |-> FloorMul(body.budget_min, 2, 5)],
       [id |-> Uuid(n + 2), project_id |-> body.id, title |-> "Initial Talent Sourcing",
        amount |-> FloorMul(body.budget_min, 2, 5)],
       [id |-> Uuid(n + 3), project_id |-> body.id, title |-> "Final Placement & Onboarding",
        amount |-> FloorMul(body.budget_min, 2, 5)] >>

AutoMilestones(body, n) ==
    << [id |-> Uuid(n + 1), project_id |-> body.id, title |-> "Project Kickoff & Strategy",
        amount |-> FloorMul(body.budget_min, 1, 5)],
       [id |-> Uuid(n + 2), project_id |-> body.id, title |-> "Initial Talent Sourcing",
        amount |-> FloorMul(body.budget_min, 2, 5)],
       [id |-> Uuid(n + 3), project_id |-> body.id, title |-> "Final Placement & Onboarding",
        amount |-> FloorMul(body.budget_min, 2, 5)] >>

\* Variant: the inserts wrapped in one transaction that is rolled back when
\* a statement throws.
PostProjectsAtomic(body, fault) ==
    LET r1 == InsertProject(body, now, users, projects, bids, milestones)
        r2 == InsertMilestones(AutoMilestones(body, uuids), fault,
                               r1.users, r1.projects, r1.bids, r1.milestones)
    IN  /\ up
        /\ writes < MaxWrites
        /\ IF ~body.wellformed
             THEN /\ resp' = ParseFailed("POST /api/projects", body)
                  /\ UNCHANGED <<projects, milestones, uuids, writes>>
             ELSE IF r1.err # ""
             THEN /\ resp' = Response("POST /api/projects", 500, r1.err, body, <<>>)
                  /\ UNCHANGED <<projects, milestones, uuids, writes>>
             ELSE IF r2.err # ""
             THEN /\ resp' = Response("POST /api/projects", 500, r2.err, body, <<>>)
                  /\ uuids' = uuids + 3
                  /\ writes' = writes + 1
                  /\ UNCHANGED <<projects, milestones>>
             ELSE /\ projects' = r2.projects
                  /\ writes' = writes + 1
                  /\ milestones' = r2.milestones
                  /\ uuids' = uuids + 3
                  /\ resp' = Response("POST /api/projects", 201, "", body, <<>>)
        /\ UNCHANGED <<users, bids, messages, now, pending, aiCalls,
                       up, conn, rooms, inbox, lastSend>>

PostProjectsWith(body, fault) ==
    LET r1 == InsertProject(body, now, users, projects, bids, milestones)
        r2 == InsertMilestones(AutoMilestones(body, uuids), fault,
                               r1.users, r1.projects, r1.bids, r1.milestones)
    IN  /\ up
        /\ writes < MaxWrites
        /\ IF ~body.wellformed
             THEN /\ resp' = ParseFailed("POST /api/projects", body)
                  /\ UNCHANGED <<projects, milestones, uuids, writes>>
             ELSE IF r1.err # ""
             THEN /\ resp' = Response("POST /api/projects", 500, r1.err, body, <<>>)
                  /\ UNCHANGED <<projects, milestones, uuids, writes>>
             ELSE /\ projects' = r2.projects
                  /\ writes' = writes + 1
                  /\ milestones' = r2.milestones
                  /\ uuids' = uuids + 3
                  /\ resp' = IF r2.err = ""
                               THEN Response("POST /api/projects", 201, "", body, <<>>)
                               ELSE Response("POST /api/projects", 500, r2.err, body, <<>>)
        /\ UNCHANGED <<users, bids, messages, now, pending, aiCalls,
                       up, conn, rooms, inbox, lastSend>>

\* The handler on a store that refuses no statement.
PostProjects(body) == PostProjectsWith(body, 0)

(***************************************************************************)
(* POST /api/bids (lines 139-147) and POST /api/milestones (lines 154-162).*)
(***************************************************************************)
PostBids(body) ==
    LET r == InsertBid(body, now, users, projects, bids, milestones)
    IN  /\ up
        /\ writes < MaxWrites
        /\ IF ~body.wellformed
             THEN /\ resp' = ParseFailed("POST /api/bids", body)
                  /\ UNCHANGED <<bids, writes>>
             ELSE /\ bids' = r.bids
                  /\ writes' = IF r.err = "" THEN writes + 1 ELSE writes
                  /\ resp' = IF r.err = ""
                               THEN Response("POST /api/bids", 201, "", body, <<>>)
                               ELSE Response("POST /api/bids", 500, r.err, body, <<>>)
        /\ UNCHANGED <<users, projects, milestones, messages, now, uuids,
                       pending, aiCalls, up, conn, rooms, inbox, lastSend>>

\* Variant: a rejected insert answered as a validation error, 400.
PostMilestonesValidating(body) ==
    LET r == InsertMilestone(body, users, projects, bids, milestones)
    IN  /\ up
        /\ writes < MaxWrites
        /\ IF ~body.wellformed
             THEN /\ resp' = ParseFailed("POST /api/milestones", body)
                  /\ UNCHANGED <<milestones, writes>>
             ELSE /\ milestones' = r.milestones
                  /\ writes' = IF r.err = "" THEN writes + 1 ELSE writes
                  /\ resp' = IF r.err = ""
                               THEN Response("POST /api/milestones", 201, "", body, <<>>)
                               ELSE Response("POST /api/milestones", 400, r.err, body, <<>>)
        /\ UNCHANGED <<users, projects, bids, messages, now, uuids,
                       pending, aiCalls, up, conn, rooms, inbox, lastSend>>

PostMilestones(body) ==
    LET r == InsertMilestone(body, users, projects, bids, milestones)
    IN  /\ up
        /\ writes < MaxWrites
        /\ IF ~body.wellformed
             THEN /\ resp' = ParseFailed("POST /api/milestones", body)
                  /\ UNCHANGED <<milestones, writes>>
             ELSE /\ milestones' = r.milestones
                  /\ writes' = IF r.err = "" THEN writes + 1 ELSE writes
                  /\ resp' = IF r.err = ""
                               THEN Response("POST /api/milestones", 201, "", body, <<>>)
                               ELSE Response("POST /api/milestones", 500, r.err, body, <<>>)
        /\ UNCHANGED <<users, projects, bids, messages, now, uuids,
                       pending, aiCalls, up, conn, rooms, inbox, lastSend>>

(***************************************************************************)
(* Read endpoints.                                                         *)
(***************************************************************************)

\* SELECT projects.*, users.name as buyer_name FROM projects JOIN users ON
\* projects.buyer_id = users.id (line 91): one row per matching pair.  `rowid`
\* keeps equal rows apart and is dropped from the response.
JoinedProjects(u, p) ==
    { [rowid |-> i, id |-> p[i].id, buyer_id |-> p[i].buyer_id, title |-> p[i].title,
       description |-> p[i].description, budget_min |-> p[i].budget_min,
       budget_max |-> p[i].budget_max, status |-> p[i].status,
       created_at |-> p[i].created_at, buyer_name |-> x.name] :
      <<i, x>> \in { <<i, x>> \in (1..Len(p)) \X u : x.id = p[i].buyer_id } }

\* ORDER BY created_at DESC: every order of the rows in which created_at
\* never increases; SQL leaves the order of rows with equal keys open.
RECURSIVE OrderedByCreatedDesc(_)
OrderedByCreatedDesc(rows) ==
    IF rows = {} THEN { <<>> }
    ELSE UNION { { <<r>> \o s : s \in OrderedByCreatedDesc(rows \ {r}) } :
                 r \in { x \in rows : \A y \in rows : x.created_at >= y.created_at } }

ProjectJson(r) ==
    [id |-> r.id, buyer_id |-> r.buyer_id, title |-> r.title,
     description |-> r.description, budget_min |-> r.budget_min,
     budget_max |-> r.budget_max, status |-> r.status,
     created_at |-> r.created_at, buyer_name |-> r.buyer_name]

\* GET /api/projects (lines 90-93).
GetProjects ==
    /\ up
    /\ \E s \in OrderedByCreatedDesc(JoinedProjects(users, projects)) :
          resp' = Response("GET /api/projects", 200, "", <<>>,
                           [i \in 1..Len(s) |-> ProjectJson(s[i])])
    /\ UNCHANGED <<users, projects, bids, milestones, messages, now, uuids, writes,
                   pending, aiCalls, up, conn, rooms, inbox, lastSend>>

\* Variant: the handler without its `if (user)` test; res.json(undefined)
\* answers 200 with an empty body.
GetUserUnchecked(id) ==
    /\ up
    /\ IF \E x \in users : x.id = id
         THEN resp' = Response("GET /api/users/:id", 200, "", [id |-> id],
                               CHOOSE x \in users : x.id = id)
         ELSE resp' = Response("GET /api/users/:id", 200, "", [id |-> id], <<>>)
    /\ UNCHANGED <<users, projects, bids, milestones, messages, now, uuids, writes,
                   pending, aiCalls, up, conn, rooms, inbox, lastSend>>

\* GET /api/users/:id (lines 118-122).
GetUser(id) ==
    /\ up
    /\ IF \E x \in users : x.id = id
         THEN resp' = Response("GET /api/users/:id", 200, "", [id |-> id],
                               CHOOSE x \in users : x.id = id)
         ELSE resp' = Response("GET /api/users/:id", 404, "User not found", [id |-> id], <<>>)
    /\ UNCHANGED <<users, projects, bids, milestones, messages, now, uuids, writes,
                   pending, aiCalls, up, conn, rooms, inbox, lastSend>>

\* SELECT bids.*, users.name as seller_name FROM bids JOIN users ON
\* bids.seller_id = users.id WHERE project_id = ? (line 135), in rowid order.
\* Variant: the WHERE project_id = ? clause left out.
RECURSIVE AllJoinedBids(_, _, _)
AllJoinedBids(u, b, pid) ==
    IF b = <<>> THEN <<>>
    ELSE LET h == Head(b)
             sellers == { x \in u : x.id = h.seller_id }
             rest == AllJoinedBids(u, Tail(b), pid)
         IN  IF sellers # {}
               THEN << [id |-> h.id, project_id |-> h.project_id, seller_id |-> h.seller_id,
                        amount |-> h.amount, proposal |-> h.proposal, status |-> h.status,
                        created_at |-> h.created_at,
                        seller_name |-> (CHOOSE x \in sellers : TRUE).name] >> \o rest
               ELSE rest

RECURSIVE JoinedBids(_, _, _)
JoinedBids(u, b, pid) ==
    IF b = <<>> THEN <<>>
    ELSE LET h == Head(b)
             sellers == { x \in u : x.id = h.seller_id }
             rest == JoinedBids(u, Tail(b), pid)
         IN  IF h.project_id = pid /\ sellers # {}
               THEN << [id |-> h.id, project_id |-> h.project_id, seller_id |-> h.seller_id,
                        amount |-> h.amount, proposal |-> h.proposal, status |-> h.status,
                        created_at |-> h.created_at,
                        seller_name |-> (CHOOSE x \in sellers : TRUE).name] >> \o rest
               ELSE rest

\* GET /api/projects/:id/bids (lines 134-137).
GetBids(pid) ==
    /\ up
    /\ resp' = Response("GET /api/projects/:id/bids", 200, "", [id |-> pid],
                        JoinedBids(users, bids, pid))
    /\ UNCHANGED <<users, projects, bids, milestones, messages, now, uuids, writes,
                   pending, aiCalls, up, conn, rooms, inbox, lastSend>>

\* SELECT * FROM milestones WHERE project_id = ? (line 150).
MilestonesOf(m, pid) == SelectSeq(m, LAMBDA r : r.project_id = pid)

\* GET /api/projects/:id/milestones (lines 149-152).
GetMilestones(pid) ==
    /\ up
    /\ resp' = Response("GET /api/projects/:id/milestones", 200, "", [id |-> pid],
                        MilestonesOf(milestones, pid))
    /\ UNCHANGED <<users, projects, bids, milestones, messages, now, uuids, writes,
                   pending, aiCalls, up, conn, rooms, inbox, lastSend>>

(***************************************************************************)
(* GET /api/projects/:id/matchmaking (lines 164-180), an async handler: it *)
(* runs up to the await of getMatchmakingAdvice and resumes when the AI    *)
(* gateway settles.                                                        *)
(***************************************************************************)

\* sellers.map(s => `${s.name}: ${s.bio}`): one entry per seller row.
SellerBios(u) == { <<x.name, x.bio>> : x \in { y \in u : y.role = "seller" } }

\* getMatchmakingAdvice (gemini service): one generateContent call with the
\* prompt built from the description and the bios; no retry, no catch.
GatewayCall(n, pid, description, bios) ==
    [n |-> n, id |-> pid, description |-> description, bios |-> bios]

\* Variant: the gateway is called before the project is looked at.
MatchmakingCallFirst(pid) ==
    LET found == { i \in 1..Len(projects) : projects[i].id = pid }
        description == IF found = {} THEN UNDEF
                       ELSE projects[CHOOSE i \in found : TRUE].description
    IN  /\ up
        /\ aiCalls < MaxAiCalls
        /\ pending' = pending \cup
               {GatewayCall(aiCalls + 1, pid, description, SellerBios(users))}
        /\ aiCalls' = aiCalls + 1
        /\ UNCHANGED resp
        /\ UNCHANGED <<users, projects, bids, milestones, messages, now, uuids, writes,
                       up, conn, rooms, inbox, lastSend>>

\* The handler up to its first await: the two SELECTs, the 404 return, the
\* call of the gateway.
MatchmakingStart(pid) ==
    LET found == { i \in 1..Len(projects) : projects[i].id = pid }
        project == projects[CHOOSE i \in found : TRUE]
    IN  /\ up
        /\ aiCalls < MaxAiCalls
        /\ IF found = {}
             THEN /\ resp' = Response("GET /api/projects/:id/matchmaking", 404,
                                      "Project not found", [id |-> pid], <<>>)
                  /\ UNCHANGED <<pending, aiCalls>>
             ELSE /\ pending' = pending \cup
                        {GatewayCall(aiCalls + 1, pid, project.description, SellerBios(users))}
                  /\ aiCalls' = aiCalls + 1
                  /\ UNCHANGED resp
        /\ UNCHANGED <<users, projects, bids, milestones, messages, now, uuids, writes,
                       up, conn, rooms, inbox, lastSend>>

\* Variant: a failed gateway call is made again.
MatchmakingSettleRetry(call, outcome) ==
    /\ up
    /\ call \in pending
    /\ IF outcome.ok
         THEN /\ pending' = pending \ {call}
              /\ resp' = Response("GET /api/projects/:id/matchmaking", 200, "",
                                  [id |-> call.id], [advice |-> outcome.text])
              /\ UNCHANGED aiCalls
         ELSE /\ aiCalls <= MaxAiCalls
              /\ pending' = (pending \ {call}) \cup {[call EXCEPT !.n = aiCalls + 1]}
              /\ aiCalls' = aiCalls + 1
              /\ UNCHANGED resp
    /\ UNCHANGED <<users, projects, bids, milestones, messages, now, uuids, writes,
                   up, conn, rooms, inbox, lastSend>>

\* The handler after the await: res.json({ advice }) when the gateway
\* resolved, the catch block's 500 when it rejected.
MatchmakingSettle(call, outcome) ==
    /\ up
    /\ call \in pending
    /\ pending' = pending \ {call}
    /\ resp' = IF outcome.ok
                 THEN Response("GET /api/projects/:id/matchmaking", 200, "",
                               [id |-> call.id], [advice |-> outcome.text])
                 ELSE Response("GET /api/projects/:id/matchmaking", 500, outcome.text,
                               [id |-> call.id], <<>>)
    /\ UNCHANGED <<users, projects, bids, milestones, messages, now, uuids, writes,
                   aiCalls, up, conn, rooms, inbox, lastSend>>

(***************************************************************************)
(* Socket.IO chat relay (lines 183-201).                                   *)
(***************************************************************************)
RoomInputs == {"buyer_1", "seller_1"}

SendInputs ==
    { MessageData("buyer_1", "seller_1", "hello"),
      MessageData("buyer_1", "buyer_1", "hello"),
      MessageData("buyer_1", "seller_1", "bye"),
      MessageData("buyer_1", "seller_1", UNDEF),
      MessageData(NULL, "seller_1", "hello"),
      MessageData("buyer_1", UNDEF, "hello") }

\* io.on("connection"): a socket starts in the room named by its own id.
Connect(c) ==
    /\ up
    /\ conn[c] = "closed"
    /\ conn' = [conn EXCEPT ![c] = "open"]
    /\ rooms' = [rooms EXCEPT ![c] = {c}]
    /\ UNCHANGED <<users, projects, bids, milestones, messages, now, uuids, writes,
                   resp, pending, aiCalls, up, inbox, lastSend>>

\* socket.on("join") (lines 186-189): no check of who joins which room.
Join(c, userId) ==
    /\ up
    /\ conn[c] = "open"
    /\ rooms' = [rooms EXCEPT ![c] = @ \cup {userId}]
    /\ UNCHANGED <<users, projects, bids, milestones, messages, now, uuids, writes,
                   resp, pending, aiCalls, up, conn, inbox, lastSend>>

\* socket.on("disconnect"): Socket.IO takes the socket out of all its rooms.
Disconnect(c) ==
    /\ up
    /\ conn[c] = "open"
    /\ conn' = [conn EXCEPT ![c] = "gone"]
    /\ rooms' = [rooms EXCEPT ![c] = {}]
    /\ UNCHANGED <<users, projects, bids, milestones, messages, now, uuids, writes,
                   resp, pending, aiCalls, up, inbox, lastSend>>

\* INSERT INTO messages (line 193); id is the AUTOINCREMENT key, timestamp
\* takes its default.
InsertMessage(d, t, msgs) ==
    IF \E f \in {d.sender_id, d.receiver_id, d.content} : ~BindableText(f)
      THEN [err |-> BindError, messages |-> msgs]
    ELSE IF NullText(d.sender_id)
      THEN [err |-> "NOT NULL constraint failed: messages.sender_id", messages |-> msgs]
    ELSE IF NullText(d.receiver_id)
      THEN [err |-> "NOT NULL constraint failed: messages.receiver_id", messages |-> msgs]
    ELSE IF NullText(d.content)
      THEN [err |-> "NOT NULL constraint failed: messages.content", messages |-> msgs]
    ELSE [err |-> "",
          messages |-> Append(msgs, [id |-> Len(msgs) + 1, sender_id |-> d.sender_id,
                                     receiver_id |-> d.receiver_id, content |-> d.content,
                                     timestamp |-> t])]

\* Variant: io.emit, a broadcast to every connected socket whatever its rooms.
EmitToAll(box, room, data) ==
    [d \in Sockets |-> IF conn[d] = "open" THEN Append(box[d], data) ELSE box[d]]

\* Variant: the event put ahead of the events already queued for the socket.
EmitToRoomFront(box, room, data) ==
    [d \in Sockets |-> IF room \in rooms[d] THEN <<data>> \o box[d] ELSE box[d]]

\* io.to(room).emit("receive_message", data): one event to every socket in
\* the room, the sender's included.
EmitToRoom(box, room, data) ==
    [d \in Sockets |-> IF room \in rooms[d] THEN Append(box[d], data) ELSE box[d]]

\* Variant: no echo to the sending socket.
NoEcho(box, c, data) == box

\* socket.emit("receive_message", data): one event to this socket.
EmitToSocket(box, c, data) == [box EXCEPT ![c] = Append(@, data)]

\* Variant: both emits placed before the insert, so that they have run when
\* the insert throws.
SendMessageEmitFirst(c, data) ==
    LET r == InsertMessage(data, now, messages)
    IN  /\ up
        /\ conn[c] = "open"
        /\ Len(messages) < MaxMessages
        /\ inbox' = EmitToSocket(EmitToRoom(inbox, data.receiver_id, data), c, data)
        /\ IF r.err # ""
             THEN /\ up' = FALSE
                  /\ conn' = [d \in Sockets |-> IF conn[d] = "open" THEN "gone" ELSE conn[d]]
                  /\ rooms' = [d \in Sockets |-> {}]
                  /\ lastSend' = [n |-> lastSend.n + 1, socket |-> c, data |-> data,
                                  error |-> r.err]
                  /\ UNCHANGED messages
             ELSE /\ messages' = r.messages
                  /\ lastSend' = [n |-> lastSend.n + 1, socket |-> c, data |-> data,
                                  error |-> ""]
                  /\ UNCHANGED <<up, conn, rooms>>
        /\ UNCHANGED <<users, projects, bids, milestones, now, uuids, writes,
                       resp, pending, aiCalls>>

\* socket.on("send_message") (lines 191-196).  The handler has no try/catch:
\* when the insert throws, neither emit runs and the exception leaves the
\* handler uncaught, which ends the server process.
SendMessage(c, data) ==
    LET r == InsertMessage(data, now, messages)
    IN  /\ up
        /\ conn[c] = "open"
        /\ Len(messages) < MaxMessages
        /\ IF r.err # ""
             THEN /\ up' = FALSE
                  /\ conn' = [d \in Sockets |-> IF conn[d] = "open" THEN "gone" ELSE conn[d]]
                  /\ rooms' = [d \in Sockets |-> {}]
                  /\ lastSend' = [n |-> lastSend.n + 1, socket |-> c, data |-> data,
                                  error |-> r.err]
                  /\ UNCHANGED <<messages, inbox>>
             ELSE /\ messages' = r.messages
                  /\ inbox' = EmitToSocket(EmitToRoom(inbox, data.receiver_id, data), c, data)
                  /\ lastSend' = [n |-> lastSend.n + 1, socket |-> c, data |-> data,
                                  error |-> ""]
                  /\ UNCHANGED <<up, conn, rooms>>
        /\ UNCHANGED <<users, projects, bids, milestones, now, uuids, writes,
                       resp, pending, aiCalls>>

(***************************************************************************)
(* The specifications.  Spec is the CRUD surface of the HTTP API.          *)
(* MatchSpec is the matchmaking endpoint together with the writes to the   *)
(* two tables it reads.                                                    *)
(***************************************************************************)
Next ==
    \/ Tick /\ UNCHANGED front
    \/ \E body \in UserBodies : PostUsers(body) /\ UNCHANGED front
    \/ \E body \in ProjectBodies : PostProjects(body) /\ UNCHANGED front
    \/ \E body \in BidBodies : PostBids(body) /\ UNCHANGED front
    \/ \E body \in MilestoneBodies : PostMilestones(body) /\ UNCHANGED front
    \/ GetProjects /\ UNCHANGED front
    \/ \E id \in UserPathIds : GetUser(id) /\ UNCHANGED front
    \/ \E id \in BidPathIds : GetBids(id) /\ UNCHANGED front
    \/ \E id \in MilestonePathIds : GetMilestones(id) /\ UNCHANGED front

Spec == Init /\ [][Next]_vars

MatchNext ==
    \/ \E body \in UserBodies : PostUsers(body) /\ UNCHANGED front
    \/ \E body \in ProjectBodies : PostProjects(body) /\ UNCHANGED front
    \/ \E id \in ProjectPathIds : MatchmakingStart(id) /\ UNCHANGED front
    \/ \E call \in pending, outcome \in AiOutcomes : MatchmakingSettle(call, outcome) /\ UNCHANGED front

MatchSpec == Init /\ [][MatchNext]_vars

RelayNext ==
    \/ \E c \in Sockets : Connect(c) /\ UNCHANGED front
    \/ \E c \in Sockets, userId \in RoomInputs : Join(c, userId) /\ UNCHANGED front
    \/ \E c \in Sockets, data \in SendInputs : SendMessage(c, data) /\ UNCHANGED front
    \/ \E c \in Sockets : Disconnect(c) /\ UNCHANGED front

RelaySpec == Init /\ [][RelayNext]_vars

\* StoreSpec is every operation that writes the store: the four write
\* endpoints and the relay's send_message, here from one connection.
StoreSendInputs ==
    { MessageData("buyer_1", "seller_1", "hello"),
      MessageData("buyer_1", "seller_1", UNDEF) }

StoreNext ==
    \/ \E body \in UserBodies : PostUsers(body) /\ UNCHANGED front
    \/ \E body \in ProjectBodies, fault \in StoreFaults : PostProjectsWith(body, fault) /\ UNCHANGED front
    \/ \E body \in BidBodies : PostBids(body) /\ UNCHANGED front
    \/ \E body \in MilestoneBodies : PostMilestones(body) /\ UNCHANGED front
    \/ Connect("s1") /\ UNCHANGED front
    \/ \E data \in StoreSendInputs : SendMessage("s1", data) /\ UNCHANGED front

StoreSpec == Init /\ [][StoreNext]_vars

(***************************************************************************)
(* The single-page frontend (App).  Its state is the hooks of lines        *)
(* 94-102, the bids list of ProjectDetail, and what its socket has emitted  *)
(* and received.  A handler that awaits a request is two steps: the part   *)
(* before the await, which leaves the request pending, and the part after  *)
(* it, which runs when the response arrives, together with the server's    *)
(* handling of the request.  The page's socket is "s1".                    *)
(***************************************************************************)
Views == {"landing", "login", "dashboard", "marketplace", "project-detail", "chat"}

PageSocket == "s1"

\* mockUser of handleLogin (lines 127-134): one fixed user per role.
MockUser(role) ==
    IF role = "buyer"
      THEN [wellformed |-> TRUE, id |-> "buyer_1", name |-> "Acme Corp HR",
            email |-> "hr@acme.com", role |-> "buyer",
            bio |-> "Fast-growing tech startup looking for HR expertise.",
            avatar |-> "https://api.dicebear.com/7.x/avataaars/svg?seed=Acme"]
      ELSE [wellformed |-> TRUE, id |-> "seller_1", name |-> "Sarah Jenkins",
            email |-> "sarah@hrconsulting.com", role |-> "seller",
            bio |-> "Senior HR Consultant with 10 years experience in tech recruitment and organizational design.",
            avatar |-> "https://api.dicebear.com/7.x/avataaars/svg?seed=Sarah"]

\* currentUser?.role
RoleOf(u) == IF u = "buyer_1" THEN "buyer" ELSE IF u = "seller_1" THEN "seller" ELSE NULL

\* A pending request of the page: what the handler fixed before its await.
Request(kind, user, project, id) ==
    [kind |-> kind, user |-> user, project |-> project, id |-> id]

FetchProjectsRequest == Request("fetchProjects", "", "", "")

Issue(r) == requests (+) SetToBag({r})

Settle(r) == requests (-) SetToBag({r})

Pending(kind) == { r \in BagToSet(requests) : r.kind = kind }

\* The requests in flight that a form or a button of the page started.
Started == BagCardinality(requests) - CopiesIn(FetchProjectsRequest, requests)

\* crypto.randomUUID() in the page: a value not in use anywhere.
FrontIdPool == << "f-01", "f-02", "f-03", "f-04", "f-05", "f-06", "f-07", "f-08" >>

IdsInUse ==
    { projects[i].id : i \in 1..Len(projects) } \cup { bids[i].id : i \in 1..Len(bids) }
    \cup { r.id : r \in BagToSet(requests) }

FreshId ==
    FrontIdPool[CHOOSE k \in 1..Len(FrontIdPool) :
                    /\ FrontIdPool[k] \notin IdsInUse
                    /\ \A j \in 1..(k - 1) : FrontIdPool[j] \in IdsInUse]

\* An event the page's socket emitted: join(userId) or send_message(data).
JoinEvent(userId) ==
    [type |-> "join", sender_id |-> userId, receiver_id |-> "", content |-> ""]

SendEvent(sender, receiver, content) ==
    [type |-> "send_message", sender_id |-> sender, receiver_id |-> receiver,
     content |-> content]

SendsEmitted == Len(SelectSeq(emitted, LAMBDA e : e.type = "send_message"))

\* LandingPage: Sign In / Get Started / the two hero buttons (lines 299-326).
GetStarted ==
    /\ view = "landing"
    /\ view' = "login"
    /\ UNCHANGED <<currentUser, selectedProject, activeChatPartner, isPostingProject,
                   isAiLoading, listed, shownBids, feed, listeners, emitted, seen,
                   requests>>
    /\ UNCHANGED server

\* LoginPage: "Back to home" (line 278).
BackToHome ==
    /\ view = "login"
    /\ view' = "landing"
    /\ UNCHANGED <<currentUser, selectedProject, activeChatPartner, isPostingProject,
                   isAiLoading, listed, shownBids, feed, listeners, emitted, seen,
                   requests>>
    /\ UNCHANGED server

\* LoginPage form (line 242): handleLogin up to its await (lines 126-140).
SubmitLogin(role) ==
    /\ view = "login"
    /\ Started < MaxPending
    /\ requests' = Issue(Request("login", MockUser(role).id, "", ""))
    /\ UNCHANGED <<view, currentUser, selectedProject, activeChatPartner,
                   isPostingProject, isAiLoading, listed, shownBids, feed, listeners,
                   emitted, seen>>
    /\ UNCHANGED server

\* handleLogin after its await (lines 142-143), whatever the response, and
\* the socket effect that the new currentUser triggers (lines 111-118): a
\* join is emitted and one more receive_message listener is registered; the
\* effect has no cleanup.
LoginDone(r) ==
    /\ r \in Pending("login")
    /\ listeners < MaxSignIns
    /\ PostUsers(MockUser(RoleOf(r.user)))
    /\ requests' = Settle(r)
    /\ currentUser' = r.user
    /\ view' = "dashboard"
    /\ emitted' = Append(emitted, JoinEvent(r.user))
    /\ listeners' = listeners + 1
    /\ UNCHANGED <<selectedProject, activeChatPartner, isPostingProject, isAiLoading,
                   listed, shownBids, feed, seen>>

\* Dashboard: Sign Out (line 465).  The socket effect runs again and does
\* nothing, currentUser being null: no leave, no socket.off.
SignOut ==
    /\ view = "dashboard"
    /\ currentUser' = NULL
    /\ view' = "landing"
    /\ UNCHANGED <<selectedProject, activeChatPartner, isPostingProject, isAiLoading,
                   listed, shownBids, feed, listeners, emitted, seen, requests>>
    /\ UNCHANGED server

\* Sidebar of Dashboard and Marketplace (lines 433, 440, 637, 640).
Navigate(target) ==
    /\ view \in {"dashboard", "marketplace"}
    /\ target \in {"dashboard", "marketplace"}
    /\ view' = target
    /\ UNCHANGED <<currentUser, selectedProject, activeChatPartner, isPostingProject,
                   isAiLoading, listed, shownBids, feed, listeners, emitted, seen,
                   requests>>
    /\ UNCHANGED server

\* Dashboard: "Post a Project", shown to a buyer (lines 481-483).
OpenDialog ==
    /\ view = "dashboard"
    /\ RoleOf(currentUser) = "buyer"
    /\ isPostingProject' = TRUE
    /\ UNCHANGED <<view, currentUser, selectedProject, activeChatPartner, isAiLoading,
                   listed, shownBids, feed, listeners, emitted, seen, requests>>
    /\ UNCHANGED server

\* The dialog's backdrop, close button and Cancel (lines 567, 577, 617).
CloseDialog ==
    /\ view = "dashboard"
    /\ isPostingProject
    /\ isPostingProject' = FALSE
    /\ UNCHANGED <<view, currentUser, selectedProject, activeChatPartner, isAiLoading,
                   listed, shownBids, feed, listeners, emitted, seen, requests>>
    /\ UNCHANGED server

\* The project cards of the Dashboard (line 497: a buyer's own projects, the
\* first three) and of the Marketplace (all projects).
Cards ==
    LET own == SelectSeq(listed, LAMBDA p :
                   RoleOf(currentUser) = "buyer" => p.buyer_id = currentUser)
    IN  IF view = "dashboard"
          THEN { own[i].id : i \in 1..(IF Len(own) < 3 THEN Len(own) ELSE 3) }
        ELSE IF view = "marketplace"
          THEN { listed[i].id : i \in 1..Len(listed) }
        ELSE {}

\* A click on a project card (lines 498, 677); ProjectDetail mounts with an
\* empty bids list and its effect fetches the bids (lines 715-720).
OpenProject(pid) ==
    /\ pid \in Cards
    /\ Started < MaxPending
    /\ selectedProject' = pid
    /\ view' = "project-detail"
    /\ shownBids' = {}
    /\ requests' = Issue(Request("fetchBids", "", pid, ""))
    /\ UNCHANGED <<currentUser, activeChatPartner, isPostingProject, isAiLoading,
                   listed, feed, listeners, emitted, seen>>
    /\ UNCHANGED server

\* ProjectDetail renders nothing without a selected project (line 727).
DetailShown == view = "project-detail" /\ selectedProject # NULL

\* ProjectDetail: Back (line 732).
BackFromProject ==
    /\ DetailShown
    /\ view' = IF RoleOf(currentUser) = "buyer" THEN "dashboard" ELSE "marketplace"
    /\ UNCHANGED <<currentUser, selectedProject, activeChatPartner, isPostingProject,
                   isAiLoading, listed, shownBids, feed, listeners, emitted, seen,
                   requests>>
    /\ UNCHANGED server

\* The bid form, shown to a seller (line 860): handlePlaceBid up to its
\* await (lines 169-184).
SubmitBid ==
    /\ DetailShown
    /\ RoleOf(currentUser) = "seller"
    /\ Started < MaxPending
    /\ requests' = Issue(Request("placeBid", currentUser, selectedProject, FreshId))
    /\ UNCHANGED <<view, currentUser, selectedProject, activeChatPartner,
                   isPostingProject, isAiLoading, listed, shownBids, feed, listeners,
                   emitted, seen>>
    /\ UNCHANGED server

\* handlePlaceBid after its await (lines 186-187), whatever the response.
PlaceBidDone(r) ==
    /\ r \in Pending("placeBid")
    /\ PostBids(BidBody(r.id, r.project, r.user, Num(900)))
    /\ view' = "dashboard"
    /\ requests' = Issue(FetchProjectsRequest) (-) SetToBag({r})
    /\ UNCHANGED <<currentUser, selectedProject, activeChatPartner, isPostingProject,
                   isAiLoading, listed, shownBids, feed, listeners, emitted, seen>>

\* The dialog's form (line 581): handlePostProject up to its await (lines
\* 146-162).  Without a current user `currentUser!.id` throws and no request
\* is made.
SubmitProject ==
    /\ view = "dashboard"
    /\ isPostingProject
    /\ currentUser # NULL
    /\ Started < MaxPending
    /\ requests' = Issue(Request("postProject", currentUser, "", FreshId))
    /\ UNCHANGED <<view, currentUser, selectedProject, activeChatPartner,
                   isPostingProject, isAiLoading, listed, shownBids, feed, listeners,
                   emitted, seen>>
    /\ UNCHANGED server

\* Variant of the continuation of handlePostProject: on a response that is
\* not ok it leaves the dialog open and fetches nothing.
PostProjectDoneChecked(r, fault) ==
    /\ r \in Pending("postProject")
    /\ PostProjectsWith(ProjectBody(r.id, r.user, "X", Num(1000)), fault)
    /\ IF resp'.status = 201
         THEN /\ isPostingProject' = FALSE
              /\ requests' = Issue(FetchProjectsRequest) (-) SetToBag({r})
         ELSE /\ requests' = Settle(r)
              /\ UNCHANGED isPostingProject
    /\ UNCHANGED <<view, currentUser, selectedProject, activeChatPartner, isAiLoading,
                   listed, shownBids, feed, listeners, emitted, seen>>

\* handlePostProject after its await (lines 164-165): the response is not
\* looked at.
PostProjectDone(r, fault) ==
    /\ r \in Pending("postProject")
    /\ PostProjectsWith(ProjectBody(r.id, r.user, "X", Num(1000)), fault)
    /\ isPostingProject' = FALSE
    /\ requests' = Issue(FetchProjectsRequest) (-) SetToBag({r})
    /\ UNCHANGED <<view, currentUser, selectedProject, activeChatPartner, isAiLoading,
                   listed, shownBids, feed, listeners, emitted, seen>>

\* fetchProjects after its awaits (lines 120-124).
FetchProjectsDone(r) ==
    /\ r \in Pending("fetchProjects")
    /\ GetProjects
    /\ listed' = [i \in 1..Len(resp'.body) |->
                      [id |-> resp'.body[i].id, buyer_id |-> resp'.body[i].buyer_id]]
    /\ requests' = Settle(r)
    /\ UNCHANGED <<view, currentUser, selectedProject, activeChatPartner,
                   isPostingProject, isAiLoading, shownBids, feed, listeners, emitted,
                   seen>>

\* The bids fetch of ProjectDetail's effect settles (lines 717-719); setBids
\* has no effect once ProjectDetail is gone.
FetchBidsDone(r) ==
    /\ r \in Pending("fetchBids")
    /\ GetBids(r.project)
    /\ shownBids' = IF view = "project-detail"
                      THEN { [id |-> resp'.body[i].id, seller_id |-> resp'.body[i].seller_id] :
                                 i \in 1..Len(resp'.body) }
                      ELSE shownBids
    /\ requests' = Settle(r)
    /\ UNCHANGED <<view, currentUser, selectedProject, activeChatPartner,
                   isPostingProject, isAiLoading, listed, feed, listeners, emitted, seen>>

\* The awaited promise rejects (the network is down, the AI gateway answers
\* with an error): the exception ends the handler at its await, no handler
\* catches it, and nothing after the await runs.
RequestFails(r) ==
    /\ r \in BagToSet(requests)
    /\ requests' = Settle(r)
    /\ UNCHANGED <<view, currentUser, selectedProject, activeChatPartner,
                   isPostingProject, isAiLoading, listed, shownBids, feed, listeners,
                   emitted, seen>>
    /\ UNCHANGED server

\* Variant of the Message button: the view is changed and the chat partner
\* is left as it was.
OpenChatUnset(bid) ==
    /\ DetailShown
    /\ RoleOf(currentUser) = "buyer"
    /\ bid \in shownBids
    /\ view' = "chat"
    /\ UNCHANGED <<currentUser, selectedProject, activeChatPartner, isPostingProject,
                   isAiLoading, listed, shownBids, feed, listeners, emitted, seen,
                   requests>>
    /\ UNCHANGED server

\* ProjectDetail: Message on a bid, shown to a buyer (lines 808, 847-850).
OpenChat(bid) ==
    /\ DetailShown
    /\ RoleOf(currentUser) = "buyer"
    /\ bid \in shownBids
    /\ activeChatPartner' = bid.seller_id
    /\ view' = "chat"
    /\ UNCHANGED <<currentUser, selectedProject, isPostingProject, isAiLoading, listed,
                   shownBids, feed, listeners, emitted, seen, requests>>
    /\ UNCHANGED server

\* ChatView renders nothing without a chat partner (line 958).
ChatShown == view = "chat" /\ activeChatPartner # NULL

\* ChatView: back (line 964).
BackFromChat ==
    /\ ChatShown
    /\ view' = "dashboard"
    /\ UNCHANGED <<currentUser, selectedProject, activeChatPartner, isPostingProject,
                   isAiLoading, listed, shownBids, feed, listeners, emitted, seen,
                   requests>>
    /\ UNCHANGED server

ChatInputs == {"hello"}

\* ChatView form (line 985): sendMessage (lines 190-197) returns at once
\* without a current user.
SubmitMessage(content) ==
    /\ ChatShown
    /\ Len(messages) + SendsEmitted < MaxMessages
    /\ emitted' = IF currentUser = NULL THEN emitted
                  ELSE Append(emitted, SendEvent(currentUser, activeChatPartner, content))
    /\ UNCHANGED <<view, currentUser, selectedProject, activeChatPartner,
                   isPostingProject, isAiLoading, listed, shownBids, feed, listeners,
                   seen, requests>>
    /\ UNCHANGED server

\* The relay handles the next event the page's socket emitted; events
\* emitted before the connection is open wait for it.
RelayHandles ==
    /\ emitted # <<>>
    /\ LET e == Head(emitted)
       IN  IF e.type = "join"
             THEN Join(PageSocket, e.sender_id)
             ELSE SendMessage(PageSocket, MessageData(e.sender_id, e.receiver_id, e.content))
    /\ emitted' = Tail(emitted)
    /\ UNCHANGED <<view, currentUser, selectedProject, activeChatPartner,
                   isPostingProject, isAiLoading, listed, shownBids, feed, listeners,
                   seen, requests>>

\* The next receive_message event reaches the page: every registered
\* listener runs and appends the message (line 115).
Receive ==
    /\ seen < Len(inbox[PageSocket])
    /\ seen' = seen + 1
    /\ feed' = feed \o [i \in 1..listeners |-> inbox[PageSocket][seen + 1]]
    /\ UNCHANGED <<view, currentUser, selectedProject, activeChatPartner,
                   isPostingProject, isAiLoading, listed, shownBids, listeners, emitted,
                   requests>>
    /\ UNCHANGED server

\* The dialog's "Generate with AI" (lines 591-599), up to its await.
DialogShown == view = "dashboard" /\ isPostingProject

GenerateClick ==
    /\ DialogShown
    /\ ~isAiLoading
    /\ Started < MaxPending
    /\ isAiLoading' = TRUE
    /\ requests' = Issue(Request("generate", "", "", ""))
    /\ UNCHANGED <<view, currentUser, selectedProject, activeChatPartner,
                   isPostingProject, listed, shownBids, feed, listeners, emitted, seen>>
    /\ UNCHANGED server

\* generateJobDescription resolved (lines 595-596): the text is written into
\* the dialog's description field, which throws when the dialog is gone, and
\* then the flag is cleared.
GenerateDone(r) ==
    /\ r \in Pending("generate")
    /\ requests' = Settle(r)
    /\ isAiLoading' = IF DialogShown THEN FALSE ELSE isAiLoading
    /\ UNCHANGED <<view, currentUser, selectedProject, activeChatPartner,
                   isPostingProject, listed, shownBids, feed, listeners, emitted, seen>>
    /\ UNCHANGED server

\* ProjectDetail: "AI Matchmaking", shown to a buyer (lines 771-782), up to
\* its first await.
MatchmakingClick ==
    /\ DetailShown
    /\ RoleOf(currentUser) = "buyer"
    /\ ~isAiLoading
    /\ Started < MaxPending
    /\ isAiLoading' = TRUE
    /\ requests' = Issue(Request("matchmaking", "", selectedProject, ""))
    /\ UNCHANGED <<view, currentUser, selectedProject, activeChatPartner,
                   isPostingProject, listed, shownBids, feed, listeners, emitted, seen>>
    /\ UNCHANGED server

\* The matchmaking response arrived (lines 778-780), with whatever status:
\* data.advice is stored and the flag is cleared.
MatchmakingDone(r) ==
    /\ r \in Pending("matchmaking")
    /\ requests' = Settle(r)
    /\ isAiLoading' = FALSE
    /\ UNCHANGED <<view, currentUser, selectedProject, activeChatPartner,
                   isPostingProject, listed, shownBids, feed, listeners, emitted, seen>>
    /\ UNCHANGED server

\* ProjectDetail: "AI Analysis" on a bid (lines 831-840), never disabled, up
\* to its await.
AnalysisClick(bid) ==
    /\ DetailShown
    /\ RoleOf(currentUser) = "buyer"
    /\ bid \in shownBids
    /\ Started < MaxPending
    /\ isAiLoading' = TRUE
    /\ requests' = Issue(Request("analysis", "", selectedProject, bid.id))
    /\ UNCHANGED <<view, currentUser, selectedProject, activeChatPartner,
                   isPostingProject, listed, shownBids, feed, listeners, emitted, seen>>
    /\ UNCHANGED server

\* analyzeBid resolved (lines 836-837).
AnalysisDone(r) ==
    /\ r \in Pending("analysis")
    /\ requests' = Settle(r)
    /\ isAiLoading' = FALSE
    /\ UNCHANGED <<view, currentUser, selectedProject, activeChatPartner,
                   isPostingProject, listed, shownBids, feed, listeners, emitted, seen>>
    /\ UNCHANGED server

(***************************************************************************)
(* The specifications of the page, each over the server that answers its   *)
(* requests.  NavSpec is navigation, sign-in and sign-out, the bid form    *)
(* and the chat view.  DialogSpec is the post-project dialog.  ChatSpec is *)
(* the page's socket across sign-ins and sign-outs, with a second client   *)
(* that sends messages.  AiSpec is the three AI actions of a buyer, with   *)
(* a bid that another client places; FairAiSpec adds that every pending    *)
(* request is eventually settled, by a response or by a failure.           *)
(***************************************************************************)
NavNext ==
    \/ GetStarted
    \/ BackToHome
    \/ \E role \in Roles : SubmitLogin(role)
    \/ \E r \in Pending("login") : LoginDone(r)
    \/ SignOut
    \/ \E target \in {"dashboard", "marketplace"} : Navigate(target)
    \/ \E pid \in Cards : OpenProject(pid)
    \/ BackFromProject
    \/ SubmitBid
    \/ \E r \in Pending("placeBid") : PlaceBidDone(r)
    \/ \E r \in Pending("fetchProjects") : FetchProjectsDone(r)
    \/ \E r \in Pending("fetchBids") : FetchBidsDone(r)
    \/ \E bid \in shownBids : OpenChat(bid)
    \/ BackFromChat
    \/ \E content \in ChatInputs : SubmitMessage(content)

NavSpec == Init /\ [][NavNext]_vars

DialogNext ==
    \/ GetStarted
    \/ SubmitLogin("buyer")
    \/ \E r \in Pending("login") : LoginDone(r)
    \/ SignOut
    \/ OpenDialog
    \/ CloseDialog
    \/ SubmitProject
    \/ \E r \in Pending("postProject"), fault \in StoreFaults : PostProjectDone(r, fault)
    \/ \E r \in BagToSet(requests) : RequestFails(r)

DialogSpec == Init /\ [][DialogNext]_vars

\* What the second client sends: a message to each of the two users.
ChatSendInputs ==
    { MessageData("u_other", "buyer_1", "hello"),
      MessageData("u_other", "seller_1", "hello") }

ChatNext ==
    \/ Connect(PageSocket) /\ UNCHANGED front
    \/ GetStarted
    \/ \E role \in Roles : SubmitLogin(role)
    \/ \E r \in Pending("login") : LoginDone(r)
    \/ SignOut
    \/ RelayHandles
    \/ Connect("s2") /\ UNCHANGED front
    \/ \E data \in ChatSendInputs : SendMessage("s2", data) /\ UNCHANGED front
    \/ Receive

ChatSpec == Init /\ [][ChatNext]_vars

\* The bid another client places on the first seed project.
OtherBid == BidBody("b1", "p1", "seller_1", Num(900))

AiNext ==
    \/ GetStarted
    \/ SubmitLogin("buyer")
    \/ \E r \in Pending("login") : LoginDone(r)
    \/ PostBids(OtherBid) /\ UNCHANGED front
    \/ OpenDialog
    \/ CloseDialog
    \/ \E pid \in Cards : OpenProject(pid)
    \/ BackFromProject
    \/ \E r \in Pending("fetchProjects") : FetchProjectsDone(r)
    \/ \E r \in Pending("fetchBids") : FetchBidsDone(r)
    \/ \E r \in BagToSet(requests) : RequestFails(r)
    \/ GenerateClick
    \/ \E r \in Pending("generate") : GenerateDone(r)
    \/ MatchmakingClick
    \/ \E r \in Pending("matchmaking") : MatchmakingDone(r)
    \/ \E bid \in shownBids : AnalysisClick(bid)
    \/ \E r \in Pending("analysis") : AnalysisDone(r)

AiSpec == Init /\ [][AiNext]_vars

\* Some pending request is settled: its response arrives or it fails.
RequestSettles ==
    \/ \E r \in Pending("login") : LoginDone(r)
    \/ \E r \in Pending("fetchProjects") : FetchProjectsDone(r)
    \/ \E r \in Pending("fetchBids") : FetchBidsDone(r)
    \/ \E r \in Pending("generate") : GenerateDone(r)
    \/ \E r \in Pending("matchmaking") : MatchmakingDone(r)
    \/ \E r \in Pending("analysis") : AnalysisDone(r)
    \/ \E r \in BagToSet(requests) : RequestFails(r)

FairAiSpec == AiSpec /\ WF_vars(RequestSettles)

(***************************************************************************)
(* Properties.                                                             *)
(***************************************************************************)

\* The last exchange was a create-project request answered 201 whose
\* budget_min is the integer B.
Created201 ==
    /\ resp.op = "POST /api/projects"
    /\ resp.status = 201

CreatedAmounts ==
    LET ms == MilestonesOf(milestones, resp.req.id)
    IN  [i \in 1..Len(ms) |-> ms[i].amount.n]

\* The integer q with q <= x * num / 5 < q + 1.
FloorFifths(x, num) ==
    CHOOSE q \in (0 - 2 * (IF x < 0 THEN 0 - x ELSE x))..(2 * (IF x < 0 THEN 0 - x ELSE x)) :
        5 * q <= x * num /\ x * num < 5 * q + 5

\* C1 as stated: a create-project request with budget_min = B leaves exactly
\* three milestones of that project, of amounts floor(0.2B), floor(0.4B) and
\* floor(0.4B), each of them non-negative.
C1_ThreeNonNegativeMilestones ==
    (Created201 /\ resp.req.budget_min.k = "num") =>
        LET B == resp.req.budget_min.n
            a == CreatedAmounts
        IN  /\ Len(a) = 3
            /\ a = << FloorFifths(B, 1), FloorFifths(B, 2), FloorFifths(B, 2) >>
            /\ \A i \in 1..3 : a[i] >= 0

\* C1 amended: a create-project request answered 201 with an integer
\* budget_min = B leaves exactly three milestones of that project, of amounts
\* floor(0.2B), floor(0.4B) and floor(0.4B) in this order, all pending; the
\* amounts are non-negative exactly when B >= 0.  A null budget_min gives
\* three amounts of 0.
C1_ThreeMilestones ==
    Created201 =>
        LET a == CreatedAmounts
            ms == MilestonesOf(milestones, resp.req.id)
        IN  /\ Len(a) = 3
            /\ \A i \in 1..3 : ms[i].amount.k = "num" /\ ms[i].status = "pending"
            /\ resp.req.budget_min.k \in {"num", "null"}
            /\ resp.req.budget_min.k = "null" => a = <<0, 0, 0>>
            /\ resp.req.budget_min.k = "num" =>
                  LET B == resp.req.budget_min.n
                  IN  /\ a = << FloorFifths(B, 1), FloorFifths(B, 2), FloorFifths(B, 2) >>
                      /\ (\A i \in 1..3 : a[i] >= 0) <=> B >= 0

C1_Witness ==
    /\ Created201
    /\ resp.req.budget_min = Num(0 - 7)
    /\ CreatedAmounts = << 0 - 2, 0 - 3, 0 - 3 >>

\* C2 as stated: the three auto-created amounts of a project created with
\* budget_min = B sum to exactly B.
C2_SumIsBudget ==
    (Created201 /\ resp.req.budget_min.k = "num") =>
        LET a == CreatedAmounts
        IN  Len(a) = 3 /\ a[1] + a[2] + a[3] = resp.req.budget_min.n

\* C2 amended: the three amounts sum to floor(0.2B) + floor(0.4B) +
\* floor(0.4B); that is B when B is a multiple of 5 (B = 1000 gives 1000) and
\* B - 1 or B - 2 otherwise.
C2_SumOfFloors ==
    (Created201 /\ resp.req.budget_min.k = "num") =>
        LET a == CreatedAmounts
            B == resp.req.budget_min.n
            sum == a[1] + a[2] + a[3]
        IN  /\ Len(a) = 3
            /\ sum = FloorFifths(B, 1) + FloorFifths(B, 2) + FloorFifths(B, 2)
            /\ B % 5 = 0 => sum = B
            /\ B % 5 # 0 => sum \in {B - 1, B - 2}
            /\ B = 1000 => a = <<200, 400, 400>>

C2_Witness ==
    /\ Created201
    /\ resp.req.budget_min = Num(4)
    /\ CreatedAmounts = <<0, 1, 1>>

\* C3: a list-projects response holds every stored project (hence every
\* project whose creation was answered 201 earlier) exactly once, with
\* buyer_name the name now stored for its buyer.
C3_ListedOnceWithBuyerName ==
    resp.op = "GET /api/projects" =>
        \A i \in 1..Len(projects) :
            projects[i].id # NULL =>
                /\ Cardinality({ j \in 1..Len(resp.body) :
                                   resp.body[j].id = projects[i].id }) = 1
                /\ \A j \in 1..Len(resp.body) :
                      resp.body[j].id = projects[i].id =>
                          /\ resp.body[j].buyer_id = projects[i].buyer_id
                          /\ \E x \in users : /\ x.id = projects[i].buyer_id
                                              /\ x.name = resp.body[j].buyer_name

C3_Witness ==
    /\ resp.op = "GET /api/projects"
    /\ \E j \in 1..Len(resp.body) :
          /\ resp.body[j].id = "p3"
          /\ resp.body[j].buyer_id = "buyer_1"
          /\ resp.body[j].buyer_name = "Renamed"

\* C4: a list-bids response for project P holds every stored bid of P (hence
\* every bid whose creation was answered 201 earlier) with seller_name the
\* name now stored for its seller, and holds no bid of another project.
C4_BidsListedWithSellerName ==
    resp.op = "GET /api/projects/:id/bids" =>
        /\ \A j \in 1..Len(resp.body) : resp.body[j].project_id = resp.req.id
        /\ \A i \in 1..Len(bids) :
              bids[i].project_id = resp.req.id =>
                  \E j \in 1..Len(resp.body) :
                      /\ resp.body[j].id = bids[i].id
                      /\ resp.body[j].seller_id = bids[i].seller_id
                      /\ resp.body[j].amount = bids[i].amount
                      /\ \E x \in users : /\ x.id = bids[i].seller_id
                                          /\ x.name = resp.body[j].seller_name

C4_Witness ==
    /\ resp.op = "GET /api/projects/:id/bids"
    /\ resp.req.id = "p1"
    /\ Len(resp.body) = 1
    /\ resp.body[1].seller_id = "seller_1"
    /\ resp.body[1].seller_name = "Renamed"

\* The step is the relay handling one send_message event.
SendHandled == lastSend'.n # lastSend.n

\* receive_message events a socket got in the step.
Received(d) == Len(inbox'[d]) - Len(inbox[d])

SendStored ==
    /\ Len(messages') = Len(messages) + 1
    /\ LET row == messages'[Len(messages')]
       IN  /\ row.sender_id = lastSend'.data.sender_id
           /\ row.receiver_id = lastSend'.data.receiver_id
           /\ row.content = lastSend'.data.content

\* C5 as stated, for the events whose insert ran: the message is stored,
\* every connection joined to B's group receives it exactly once, and the
\* sending connection receives a copy.
C5_EachJoinedOnce ==
    [][ (SendHandled /\ lastSend'.error = "") =>
            /\ SendStored
            /\ \A d \in Sockets : lastSend'.data.receiver_id \in rooms[d] => Received(d) = 1
            /\ Received(lastSend'.socket) >= 1 ]_vars

\* C5 amended: when the relay handles a send-message event from A to B that
\* carries a sender id, a receiver id and a content, the message is stored,
\* every connection joined to B's group other than the sending one receives
\* it exactly once, every other connection but the sending one receives
\* nothing, and the sending connection receives one copy by the echo plus a
\* second one when it is itself joined to B's group.
C5_JoinedOnceSenderEcho ==
    [][ SendHandled =>
          LET data == lastSend'.data
              present == \A f \in {data.sender_id, data.receiver_id, data.content} :
                             f # UNDEF /\ f # NULL
          IN  /\ present <=> lastSend'.error = ""
              /\ present =>
                  /\ SendStored
                  /\ \A d \in Sockets :
                        /\ Received(d) =
                              (IF data.receiver_id \in rooms[d] THEN 1 ELSE 0)
                              + (IF d = lastSend'.socket THEN 1 ELSE 0)
                        /\ \A k \in (Len(inbox[d]) + 1)..Len(inbox'[d]) :
                              inbox'[d][k] = data ]_vars

C5_Witness ==
    /\ lastSend.n = 1
    /\ lastSend.error = ""
    /\ lastSend.socket = "s1"
    /\ lastSend.data.receiver_id = "seller_1"
    /\ "seller_1" \in rooms["s1"] /\ "seller_1" \in rooms["s2"]
    /\ Len(messages) = 1
    /\ Len(inbox["s1"]) = 2
    /\ Len(inbox["s2"]) = 1

HasProject(pid) == \E i \in 1..Len(projects) : projects[i].id = pid

\* C6: a matchmaking request for a project id that is not in the store is
\* answered 404 "Project not found" in the same step, with no call of the AI
\* gateway made or left pending for it.
C6_NotFoundWithoutGateway ==
    [][ \A pid \in ProjectPathIds :
          (MatchmakingStart(pid) /\ ~HasProject(pid)) =>
              /\ resp'.op = "GET /api/projects/:id/matchmaking"
              /\ resp'.status = 404
              /\ resp'.req.id = pid
              /\ aiCalls' = aiCalls
              /\ pending' = pending ]_vars

C6_Witness ==
    /\ resp.op = "GET /api/projects/:id/matchmaking"
    /\ resp.status = 404
    /\ resp.req.id = "p404"
    /\ aiCalls = 0
    /\ pending = {}

\* C7 as stated: an upsert of a user whose id is already stored leaves
\* exactly one row of that id and no more rows than before; when it is
\* answered 201 that row holds the name (and the other fields) of the request.
C7_UpsertReplacesRow ==
    [][ LET body == resp'.req IN
          (/\ resp'.op = "POST /api/users"
           /\ PostUsers(body)
           /\ body.wellformed
           /\ \E x \in users : x.id = body.id) =>
              /\ Cardinality(users') <= Cardinality(users)
              /\ Cardinality({ x \in users' : x.id = body.id }) = 1
              /\ resp'.status = 201 =>
                    \A x \in users' :
                        x.id = body.id =>
                            /\ x.name = body.name
                            /\ x.email = body.email
                            /\ x.role = body.role ]_vars

WriteOps == {"POST /api/users", "POST /api/projects", "POST /api/bids", "POST /api/milestones"}

\* The write of the last request is in the store.
WriteApplied ==
    CASE resp.op = "POST /api/users" ->
            \E x \in users : /\ x.id = resp.req.id /\ x.name = resp.req.name
                             /\ x.email = resp.req.email /\ x.role = resp.req.role
      [] resp.op = "POST /api/projects" ->
            /\ \E i \in 1..Len(projects) :
                  /\ projects[i].id = resp.req.id
                  /\ projects[i].buyer_id = resp.req.buyer_id
                  /\ projects[i].budget_min = resp.req.budget_min
            /\ Len(MilestonesOf(milestones, resp.req.id)) = 3
      [] resp.op = "POST /api/bids" ->
            \E i \in 1..Len(bids) :
                /\ bids[i].id = resp.req.id /\ bids[i].project_id = resp.req.project_id
                /\ bids[i].seller_id = resp.req.seller_id
      [] resp.op = "POST /api/milestones" ->
            \E i \in 1..Len(milestones) :
                /\ milestones[i].id = resp.req.id
                /\ milestones[i].project_id = resp.req.project_id
                /\ milestones[i].amount = resp.req.amount

\* C8 as stated: every write request is answered 201 or 500, never 400.
C8_Only201Or500 ==
    resp.op \in WriteOps => resp.status \in {201, 500}

\* C8 amended: every write request whose body parses as JSON is answered
\* 201 with no error when its write was applied, or 500 carrying the message
\* of the statement that failed; a write request whose body is not valid
\* JSON is answered 400 by the body parser and reaches no handler.
C8_WriteStatuses ==
    resp.op \in WriteOps =>
        /\ resp.req.wellformed =>
              /\ resp.status \in {201, 500}
              /\ resp.status = 201 => resp.error = "" /\ WriteApplied
              /\ resp.status = 500 => resp.error # ""
        /\ ~resp.req.wellformed => resp.status = 400
        /\ resp.status = 400 => ~resp.req.wellformed

C8_Witness ==
    /\ resp.op = "POST /api/milestones"
    /\ resp.req.wellformed
    /\ resp.status = 500
    /\ resp.error = "FOREIGN KEY constraint failed"
    /\ milestones = <<>>

\* C9 as stated: a user upsert whose email is the email of a different
\* stored user is answered 500 and leaves the store as it was.
C9_DuplicateEmailRejected ==
    [][ LET body == resp'.req IN
          (/\ resp'.op = "POST /api/users"
           /\ PostUsers(body)
           /\ body.wellformed
           /\ \E x \in users : x.email = body.email /\ x.id # body.id) =>
              /\ resp'.status = 500
              /\ users' = users ]_vars

\* C10 as stated: a user id that is in the store is in the store after
\* every step.
C10_UsersNeverDeleted ==
    [][ \A x \in users : \E y \in users' : y.id = x.id ]_vars

\* C11 as stated: the role stored for a user id never changes: a row of that
\* id found after a step holds the role the id had before it.
C11_RoleImmutable ==
    [][ \A x \in users : \A y \in users' : y.id = x.id => y.role = x.role ]_vars

\* C12 as stated: no two user rows share an email and no two share an id.
C12_UniqueEmailAndId ==
    \A x, y \in users : x # y => (x.email # y.email /\ x.id # y.id)

HasUser(id) == \E x \in users : x.id = id

\* The step is a read of the bids or the milestones of a project id that is
\* not in the store, answered 200 with an empty list.
EmptyListOfUnknownProject ==
    /\ \A pid \in BidPathIds :
          (GetBids(pid) /\ ~HasProject(pid)) =>
              resp'.status = 200 /\ resp'.body = <<>>
    /\ \A pid \in MilestonePathIds :
          (GetMilestones(pid) /\ ~HasProject(pid)) =>
              resp'.status = 200 /\ resp'.body = <<>>

\* C13 as stated: a read given an id that is not in the store (get user, list
\* bids, list milestones) is answered with a normal result, never with 404.
C13_MissingIdNever404 ==
    [][ /\ \A id \in UserPathIds :
              (GetUser(id) /\ ~HasUser(id)) => resp'.status = 200
        /\ EmptyListOfUnknownProject ]_vars

\* C13 amended: get user answers 404 "User not found" exactly when no user of
\* that id is stored and 200 with the row otherwise; list bids and list
\* milestones of a project id that is not in the store answer 200 with an
\* empty list.
C13_UserNotFoundListsEmpty ==
    [][ /\ \A id \in UserPathIds :
              GetUser(id) =>
                  /\ HasUser(id) => /\ resp'.status = 200
                                    /\ resp'.body \in users
                                    /\ resp'.body.id = id
                  /\ ~HasUser(id) => /\ resp'.status = 404
                                     /\ resp'.error = "User not found"
                                     /\ resp'.body = <<>>
        /\ EmptyListOfUnknownProject
        /\ resp'.status = 404 => resp'.op = "GET /api/users/:id" ]_vars

C13_Witness ==
    /\ resp.op = "GET /api/users/:id"
    /\ resp.req.id = "u404"
    /\ resp.status = 404
    /\ ~HasUser("u404")
    /\ bids # <<>>

\* Row i of projects was inserted by an earlier statement than row j: rows are
\* kept in insertion order and the seed rows come from one statement.
InsertedBefore(i, j) == i < j /\ j > Len(SeedProjects)

\* C14 as stated: in a list-projects response a project created later stands
\* before every project created earlier.
C14_NewestFirst ==
    resp.op = "GET /api/projects" =>
        \A a, b \in 1..Len(resp.body) :
            \A i, j \in 1..Len(projects) :
                (/\ projects[i].id # NULL /\ projects[j].id # NULL
                 /\ resp.body[a].id = projects[i].id
                 /\ resp.body[b].id = projects[j].id
                 /\ InsertedBefore(i, j)) => b < a

\* Every row of `old` is at its place in `new`, unchanged.
KeptRows(old, new) ==
    /\ Len(new) >= Len(old)
    /\ \A i \in 1..Len(old) : new[i] = old[i]

\* C15: every step keeps every stored project, bid, milestone and message at
\* its place with every field unchanged, and the stored status is 'open' for
\* every project and 'pending' for every bid and every milestone.
C15_RowsNeverChange ==
    [][ /\ KeptRows(projects, projects')
        /\ KeptRows(bids, bids')
        /\ KeptRows(milestones, milestones')
        /\ KeptRows(messages, messages')
        /\ \A i \in 1..Len(projects') : projects'[i].status = "open"
        /\ \A i \in 1..Len(bids') : bids'[i].status = "pending"
        /\ \A i \in 1..Len(milestones') : milestones'[i].status = "pending" ]_vars

C15_Witness ==
    /\ resp.op = "POST /api/bids"
    /\ resp.status = 500
    /\ resp.error = "UNIQUE constraint failed: bids.id"
    /\ Len(bids) = 1
    /\ bids[1].project_id = "p1"
    /\ resp.req.project_id = "p2"
    /\ Len(messages) = 1

\* The stored rows that hold the payload d.
RowsOf(msgs, d) ==
    { i \in 1..Len(msgs) : /\ msgs[i].sender_id = d.sender_id
                           /\ msgs[i].receiver_id = d.receiver_id
                           /\ msgs[i].content = d.content }

\* C16: a step in which a connection receives receive_message events is the
\* handling of a send-message event whose insert ran, and the events carry the
\* payload of the row just stored; the handling of an event whose insert
\* fails stores nothing and emits nothing; every payload ever received is the
\* payload of a stored row.
C16_StoredBeforeEmitted ==
    [][ /\ (\E d \in Sockets : inbox'[d] # inbox[d]) =>
              /\ SendHandled
              /\ lastSend'.error = ""
              /\ SendStored
              /\ \A d \in Sockets :
                    /\ Len(inbox'[d]) >= Len(inbox[d])
                    /\ \A k \in (Len(inbox[d]) + 1)..Len(inbox'[d]) :
                          inbox'[d][k] = lastSend'.data
        /\ (SendHandled /\ lastSend'.error # "") =>
              /\ inbox' = inbox
              /\ messages' = messages
        /\ \A d \in Sockets : \A k \in 1..Len(inbox'[d]) :
              RowsOf(messages', inbox'[d][k]) # {} ]_vars

C16_Witness ==
    /\ lastSend.n = 2
    /\ lastSend.error = "NOT NULL constraint failed: messages.sender_id"
    /\ Len(messages) = 1
    /\ inbox["s1"] = << MessageData("buyer_1", "seller_1", "hello") >>
    /\ inbox["s2"] = << MessageData("buyer_1", "seller_1", "hello") >>

\* C17 as stated: a sending connection joined to the group of its own user
\* (the sender id of the messages it sends) receives each such message twice.
C17_SenderInOwnGroupTwice ==
    [][ (/\ SendHandled
         /\ lastSend'.error = ""
         /\ lastSend'.data.sender_id \in rooms[lastSend'.socket]) =>
            Received(lastSend'.socket) = 2 ]_vars

\* C17 amended: the sending connection receives a message it sends twice
\* exactly when it is joined to the group of the receiver, once through the
\* group broadcast and once through the echo; a sending connection joined to
\* its own user's group and not to the receiver's receives it once, through
\* the echo alone.
C17_TwiceOnlyInReceiverGroup ==
    [][ (SendHandled /\ lastSend'.error = "") =>
          LET c == lastSend'.socket
              data == lastSend'.data
          IN  /\ Received(c) = IF data.receiver_id \in rooms[c] THEN 2 ELSE 1
              /\ (data.sender_id \in rooms[c] /\ data.receiver_id \notin rooms[c]) =>
                    Received(c) = 1
              /\ (data.sender_id \in rooms[c] /\ data.receiver_id = data.sender_id) =>
                    Received(c) = 2 ]_vars

C17_Witness ==
    /\ lastSend.n = 1
    /\ lastSend.error = ""
    /\ lastSend.socket = "s1"
    /\ lastSend.data = MessageData("buyer_1", "seller_1", "hello")
    /\ rooms["s1"] = {"s1", "buyer_1"}
    /\ rooms["s2"] = {"s2", "seller_1"}
    /\ Len(inbox["s1"]) = 1
    /\ Len(inbox["s2"]) = 1

\* The step is a create-project request whose project insert ran and one of
\* whose milestone inserts failed.
MilestoneInsertFailed(body) ==
    /\ body.wellformed
    /\ \E fault \in StoreFaults : PostProjectsWith(body, fault)
    /\ InsertProject(body, now, users, projects, bids, milestones).err = ""
    /\ resp'.status # 201

\* C18: a create-project request whose milestone insert fails after the
\* project row was inserted is answered 500 with the error of that insert;
\* the project row is in the store afterwards, every row stored before is
\* kept, and so is every milestone of the request inserted before the
\* failure: the milestones then stored are those of before followed by the
\* first zero, one or two of the request.
C18_NoRollback ==
    [][ LET body == resp'.req IN
          (resp'.op = "POST /api/projects" /\ MilestoneInsertFailed(body)) =>
              /\ resp'.status = 500
              /\ resp'.error # ""
              /\ Len(projects') = Len(projects) + 1
              /\ KeptRows(projects, projects')
              /\ projects'[Len(projects')].id = body.id
              /\ projects'[Len(projects')].buyer_id = body.buyer_id
              /\ KeptRows(milestones, milestones')
              /\ Len(milestones') - Len(milestones) \in 0..2
              /\ \A i \in (Len(milestones) + 1)..Len(milestones') :
                    LET auto == AutoMilestones(body, uuids)[i - Len(milestones)]
                    IN  /\ milestones'[i].id = auto.id
                        /\ milestones'[i].project_id = body.id
                        /\ milestones'[i].title = auto.title
                        /\ milestones'[i].amount = auto.amount ]_vars

C18_Witness ==
    /\ resp.op = "POST /api/projects"
    /\ resp.status = 500
    /\ resp.error = DiskFull
    /\ resp.req.id = "p3"
    /\ Len(projects) = 3
    /\ projects[3].id = "p3"
    /\ Len(MilestonesOf(milestones, "p3")) = 2
    /\ MilestonesOf(milestones, "p3")[2].title = "Initial Talent Sourcing"

\* C19: the handling of a send-message event addressed to B puts the message
\* behind everything a connection joined to B's group has received so far
\* and stores it under an id greater than every stored id; hence in what a
\* connection has received, of two different messages the one received first
\* is stored under the smaller id, whichever connections sent them.
C19_DeliveryFollowsHandling ==
    [][ /\ (SendHandled /\ lastSend'.error = "") =>
              /\ \A d \in Sockets :
                    lastSend'.data.receiver_id \in rooms[d] =>
                        /\ Len(inbox'[d]) > Len(inbox[d])
                        /\ KeptRows(inbox[d], inbox'[d])
                        /\ \A k \in (Len(inbox[d]) + 1)..Len(inbox'[d]) :
                              inbox'[d][k] = lastSend'.data
              /\ \A i \in 1..Len(messages) :
                    messages[i].id < messages'[Len(messages')].id
        /\ \A d \in Sockets : \A a, b \in 1..Len(inbox'[d]) :
              (a < b /\ inbox'[d][a] # inbox'[d][b]) =>
                  \E i \in RowsOf(messages', inbox'[d][a]) :
                      \E j \in RowsOf(messages', inbox'[d][b]) :
                          i < j /\ messages'[i].id < messages'[j].id ]_vars

C19_Witness ==
    /\ lastSend.n = 2
    /\ lastSend.error = ""
    /\ lastSend.socket = "s2"
    /\ "seller_1" \in rooms["s1"]
    /\ inbox["s1"] = << MessageData("buyer_1", "seller_1", "hello"),
                        MessageData("buyer_1", "seller_1", "hello"),
                        MessageData("buyer_1", "seller_1", "bye") >>
    /\ Len(messages) = 2
    /\ messages[1].content = "hello" /\ messages[1].id = 1
    /\ messages[2].content = "bye" /\ messages[2].id = 2

\* A field of the payload is absent (undefined) or null.
FieldMissing(data) ==
    \E f \in {data.sender_id, data.receiver_id, data.content} : f = UNDEF \/ f = NULL

\* C20 as stated: a send-message event with a missing sender id, receiver id
\* or content is stored, emitted to the receiver's group and echoed to the
\* sender like a well-formed one, with no error outcome.
C20_MalformedHandledAsValid ==
    [][ (SendHandled /\ FieldMissing(lastSend'.data)) =>
            /\ lastSend'.error = ""
            /\ SendStored
            /\ Received(lastSend'.socket) >= 1
            /\ up' ]_vars

\* The Joined state of a connection: it has joined the room of some user.
Joined(c) == rooms[c] \cap RoomInputs # {}

\* C21 as stated: the relay handles a send_message event of a connection,
\* and delivers a receive_message event to a connection, only while that
\* connection is in the Joined state.
C21_OnlyWhileJoined ==
    [][ \A c \in Sockets :
          \/ (SendHandled /\ lastSend'.error = "" /\ lastSend'.socket = c)
          \/ inbox'[c] # inbox[c]
          => Joined(c) ]_vars

AiFailures == { o \in AiOutcomes : ~o.ok }

\* C22: when the gateway call of a pending matchmaking request fails, the
\* request is answered 500 with the failure's message in the same step and is
\* no longer pending, and no further gateway call is made for it; a request
\* makes at most one gateway call when it starts, and only for a stored
\* project.
C22_FailureIs500NoRetry ==
    [][ /\ \A call \in pending, outcome \in AiFailures :
              MatchmakingSettle(call, outcome) =>
                  /\ resp'.op = "GET /api/projects/:id/matchmaking"
                  /\ resp'.status = 500
                  /\ resp'.error = outcome.text
                  /\ resp'.req.id = call.id
                  /\ pending' = pending \ {call}
                  /\ aiCalls' = aiCalls
        /\ \A pid \in ProjectPathIds :
              MatchmakingStart(pid) =>
                  /\ aiCalls' <= aiCalls + 1
                  /\ Cardinality(pending') <= Cardinality(pending) + 1
                  /\ aiCalls' = aiCalls + 1 => HasProject(pid) ]_vars

C22_Witness ==
    /\ resp.op = "GET /api/projects/:id/matchmaking"
    /\ resp.status = 500
    /\ resp.req.id = "p1"
    /\ aiCalls = 1
    /\ pending = {}

UserIds(u) == { x.id : x \in u } \ {NULL}

ProjectIds(p) == { p[i].id : i \in 1..Len(p) } \ {NULL}

\* The user ids some project or bid row refers to.
ReferencedUsers(p, b) ==
    { p[i].buyer_id : i \in 1..Len(p) } \cup { b[i].seller_id : i \in 1..Len(b) }

\* A create request whose rows would leave a reference without its target:
\* a project of an unknown buyer, a bid or a milestone of an unknown project,
\* a bid of an unknown seller, a user upsert that takes away, under another
\* id, a row that a project or a bid refers to.
BreaksReferences(op, body) ==
    CASE op = "POST /api/projects" -> body.buyer_id \notin UserIds(users)
      [] op = "POST /api/bids" ->
            \/ body.project_id \notin ProjectIds(projects)
            \/ body.seller_id \notin UserIds(users)
      [] op = "POST /api/milestones" -> body.project_id \notin ProjectIds(projects)
      [] op = "POST /api/users" ->
            \E x \in users :
                /\ x.email = body.email
                /\ x.id # body.id
                /\ x.id \in ReferencedUsers(projects, bids)
      [] OTHER -> FALSE

\* The step is the handling of the write request op with this body.
Requested(op, body) ==
    CASE op = "POST /api/users" -> PostUsers(body)
      [] op = "POST /api/projects" -> PostProjects(body)
      [] op = "POST /api/bids" -> PostBids(body)
      [] op = "POST /api/milestones" -> PostMilestones(body)
      [] OTHER -> FALSE

\* C25: every stored project has a stored buyer, every stored bid a stored
\* project and a stored seller, every stored milestone a stored project, in
\* every state; and a well-formed create request whose rows would break this
\* is answered 500 and leaves the four tables as they were.
C25_ReferencesHold ==
    [][ /\ ForeignKeysHold(users, projects, bids, milestones)
        /\ ForeignKeysHold(users', projects', bids', milestones')
        /\ (/\ resp'.op \in WriteOps
            /\ resp'.req.wellformed
            /\ Requested(resp'.op, resp'.req)
            /\ BreaksReferences(resp'.op, resp'.req)) =>
               /\ resp'.status = 500
               /\ UNCHANGED <<users, projects, bids, milestones>> ]_vars

\* An upsert that would delete the seller of a stored bid is refused.
C25_Witness ==
    /\ resp.op = "POST /api/users"
    /\ resp.status = 500
    /\ resp.error = "FOREIGN KEY constraint failed"
    /\ resp.req.email = "sarah@hrconsulting.com"
    /\ Len(bids) = 1
    /\ bids[1].seller_id = "seller_1"
    /\ \E x \in users : x.id = "seller_1"

\* The step is a user's interaction with a control that sets the view.
ViewControlUsed ==
    \/ GetStarted
    \/ BackToHome
    \/ SignOut
    \/ \E target \in {"dashboard", "marketplace"} : Navigate(target)
    \/ \E pid \in Cards : OpenProject(pid)
    \/ BackFromProject
    \/ \E bid \in shownBids : OpenChat(bid)
    \/ BackFromChat

\* The step is the completion of a form's request while the view of that
\* form is still displayed.
FormCompletes ==
    \/ view = "login" /\ \E r \in Pending("login") : LoginDone(r)
    \/ view = "project-detail" /\ \E r \in Pending("placeBid") : PlaceBidDone(r)

\* C23 as stated: the view is one of the six named views, and it changes
\* only in a step in which the user uses a control of the displayed view, or
\* in which the request of a form of the displayed view completes; never by
\* the completion of a request after the user has moved on to another view.
C23_ViewChangesOnlyOnInteraction ==
    [][ /\ view \in Views
        /\ view' \in Views
        /\ view' # view => (ViewControlUsed \/ FormCompletes) ]_vars

SignedInViews == {"dashboard", "marketplace", "project-detail", "chat"}

\* C26 as stated: a view of the signed-in part of the page is displayed only
\* while a current user is set.
C26_SignedInViewsNeedUser == view \in SignedInViews => currentUser # NULL

\* C30: while the project view is displayed a project is selected, while the
\* chat view is displayed a chat partner is set, and no step takes a selected
\* project or a chat partner back to null.
C30_DetailAndChatHaveTheirSubject ==
    [][ /\ view = "project-detail" => selectedProject # NULL
        /\ view = "chat" => activeChatPartner # NULL
        /\ view' = "project-detail" => selectedProject' # NULL
        /\ view' = "chat" => activeChatPartner' # NULL
        /\ selectedProject # NULL => selectedProject' # NULL
        /\ activeChatPartner # NULL => activeChatPartner' # NULL ]_vars

\* The chat view is displayed, reached from the view of a project, and the
\* user has signed out and in again since a project was first selected.
C30_Witness ==
    /\ view = "chat"
    /\ activeChatPartner = "seller_1"
    /\ selectedProject = "p1"
    /\ currentUser = "buyer_1"
    /\ listeners = 2

\* C24: when the create-project request of the post-project handler is
\* answered, with 201 or with 500, the same step closes the dialog and
\* starts one fetch of the project list; the request is no longer pending.
C24_ClosesAndRefetchesWhateverStatus ==
    [][ \A r \in Pending("postProject"), fault \in StoreFaults :
          (/\ CopiesIn(r, requests') < CopiesIn(r, requests)
           /\ PostProjectDone(r, fault)) =>
              /\ resp'.op = "POST /api/projects"
              /\ resp'.status \in {201, 500}
              /\ resp'.req.id = r.id
              /\ isPostingProject' = FALSE
              /\ CopiesIn(FetchProjectsRequest, requests')
                     = CopiesIn(FetchProjectsRequest, requests) + 1
              /\ CopiesIn(r, requests') = CopiesIn(r, requests) - 1 ]_vars

\* A create-project request was answered 500: the dialog is closed and a
\* second fetch of the project list is in flight beside the one of the mount.
C24_Witness ==
    /\ resp.op = "POST /api/projects"
    /\ resp.status = 500
    /\ ~isPostingProject
    /\ CopiesIn(FetchProjectsRequest, requests) = 2
    /\ Pending("postProject") = {}

\* C27 as stated: whenever the shared AI flag is set it is cleared again
\* later, however the call that set it ends.
C27_AiFlagEventuallyCleared == isAiLoading ~> ~isAiLoading

\* C28 as stated: the page's socket never has more than one receive_message
\* listener, and each receive_message event that reaches the page appends
\* exactly one entry to its message list.
C28_OneEntryPerEvent ==
    [][ /\ listeners' <= 1
        /\ Receive => Len(feed') = Len(feed) + 1 ]_vars

\* C29 as stated: while a user is signed in and the relay has handled every
\* join the page emitted, the page's socket is in the group of no other user,
\* and every receive_message event delivered to it is addressed to the
\* signed-in user.
C29_OnlyCurrentUsersGroup ==
    [][ (currentUser # NULL /\ emitted = <<>>) =>
          /\ \A u \in RoomInputs : u \in rooms[PageSocket] => u = currentUser
          /\ \A k \in (Len(inbox[PageSocket]) + 1)..Len(inbox'[PageSocket]) :
                inbox'[PageSocket][k].receiver_id = currentUser ]_vars

====
